---- MODULE Spec2Model ----
(***************************************************************************)
(* SmartRemux (video_remuxer_gui.py): the job engine of RemuxApp.          *)
(*                                                                         *)
(* Threads: the GUI thread (button handlers, check_queue, dialogs), one    *)
(* worker thread per started job (remux_videos_worker), and the external   *)
(* ffmpeg process each worker spawns.  Every action below is one step of   *)
(* one thread between two accesses to shared state.                        *)
(*                                                                         *)
(* process_queue is kept as `events': for each job the events put by its   *)
(* worker thread, in put order.  Events put by the GUI thread carry no     *)
(* file data; of them only the number put after the FINISHED event of the  *)
(* latest job is kept (`lateEvents').                                      *)
(* Of the messages check_queue consumes only SKIP_BUTTON_RESET and         *)
(* FINISHED change modelled state (`skipResetPending', `finishedPending'). *)
(***************************************************************************)
EXTENDS Integers, Sequences, FiniteSets, TLC

\* ---- bounds ----
NumFiles == 2          \* files in the job's list
MaxJobs == 2           \* jobs started in one run of the application
MaxLate == 1           \* GUI events counted after FINISHED (saturating)
MaxClicks == 3         \* requests (pause, skip, cancel, drop) the user issues
NumPaths == 2          \* different paths a scanned file list can hold
MaxScan == 3           \* length of a scanned file list
MaxPool == 2           \* worker threads of the scan's pool
MaxBatch == 6          \* length of the file list of a scan that reports batches

Files == 1..NumFiles
Workers == 1..MaxJobs

FILE_ACTION_MOVE == "move"
FILE_ACTION_KEEP == "keep"
FILE_ACTION_DELETE == "delete"

VARIABLES
    pause_event,        \* threading.Event, set = running
    cancel_event,
    skip_event,
    current_process,    \* 0 = None, else the worker whose Popen object it is
    current_file_index, \* self.current_file_index (0-based, shared attribute)
    events,             \* process_queue: events put by each worker thread
    lateEvents,         \* process_queue: GUI events put after FINISHED
    skipResetPending,   \* a SKIP_BUTTON_RESET message waits in process_queue
    finishedPending,    \* FINISHED messages waiting in process_queue
    gui,                \* position of the GUI thread
    was_paused,         \* local of cancel_processing
    btn_pause, btn_skip, btn_cancel,   \* isEnabled() of the three buttons
    uiPhase,            \* "idle" | "scanning" | "scanned" | "remuxing"
    jobs,               \* number of worker threads started
    pc,                 \* position of each worker thread
    remuxed_count, skipped_count,      \* locals of remux_videos_worker
    ctx,                \* file (1-based) held in video_file_path / file_name
    res,                \* return value of execute_ffmpeg_process
    proc,               \* state of the ffmpeg process of each worker
    out,                \* output file of each input file on disk
    orig,               \* original input file on disk
    settings,           \* settings dict of the job (read-only)
    preview,            \* commands shown by the preview dialog, one per file
    command,            \* `command' of remux_videos_worker: the last one built
    outcome,            \* history: classification of each file by each job
    observed,           \* history: the worker has seen cancel_event set
    req,                \* history: requests issued: 0 none, f > 0 exactly one
                        \*   skip, issued while the process of file f ran, -2
                        \*   pauses and resumes only, -1 other
    ps,                 \* history: the pre-start pause the worker is blocked in
    clicks,             \* history: number of requests the user has issued
    scan_files,         \* `files' of scan_files_worker: the list of paths
    probe,              \* what ffprobe answers for each path (environment)
    validate_files,     \* self.validate_files
    max_workers,        \* size of the ThreadPoolExecutor
    future,             \* state of the future of each list position
    collected,          \* list positions the scan worker has handled, in order
    results,            \* `results' of scan_files_worker: path -> descriptor
    scan_pc,            \* position of the scan worker thread
    scan_msg,           \* the SCAN_COMPLETE message put on process_queue
    scan_cancelled,     \* history: the scan worker has seen cancel_event set
    remaining_files,    \* `remaining_files' of the fallback, not yet visited
    scan_events,        \* process_queue: SCAN_* events put by the scan worker
    scan_hist           \* history: the pool failure and the cancellation seen

scanVars == <<scan_files, probe, validate_files, max_workers, future,
              collected, results, scan_pc, scan_msg, scan_cancelled,
              remaining_files, scan_events, scan_hist>>

jobVars == <<pause_event, skip_event, current_process,
             current_file_index, events, lateEvents, skipResetPending,
             finishedPending, gui, was_paused, btn_pause, btn_skip, btn_cancel,
             uiPhase, jobs, pc, remuxed_count, skipped_count, ctx, res, proc,
             out, orig, settings, preview, command, outcome, observed, req, ps, clicks>>

vars == <<pause_event, cancel_event, skip_event, current_process,
          current_file_index, events, lateEvents, skipResetPending,
          finishedPending, gui, was_paused, btn_pause, btn_skip, btn_cancel,
          uiPhase, jobs, pc, remuxed_count, skipped_count, ctx, res, proc,
          out, orig, settings, preview, command, outcome, observed, req, ps, clicks,
          scan_files, probe, validate_files, max_workers, future,
          collected, results, scan_pc, scan_msg, scan_cancelled,
          remaining_files, scan_events, scan_hist>>

sigVars == <<pause_event, cancel_event, skip_event>>
btnVars == <<btn_pause, btn_skip, btn_cancel>>
workerVars == <<pc, remuxed_count, skipped_count, ctx, res, observed>>
histVars == <<outcome, req, ps>>
\* progress_group.isVisible(): the group holding the buttons of the job is
\* hidden while a scan runs and after reset_ui_after_processing
Visible == uiPhase \in {"scanned", "remuxing"}

\* a request of the user: a click on Pause, Skip or Cancel, or a drop of files
Click == clicks < MaxClicks /\ clicks' = clicks + 1
diskVars == <<out, orig>>

Min(a, b) == IF a < b THEN a ELSE b

\* ---- events ----
Ev(t, w, f, n, m, what) ==
    [type |-> t, job |-> w, file |-> f, n |-> n, m |-> m, what |-> what]
LogEv(w, f, what) == Ev("LOG", w, f, 0, 0, what)
\* len(self.file_queue) / total_videos of the job
Total == settings.total
ProgressEv(w, current) == Ev("PROGRESS", w, 0, current, Total, "")
\* CURRENT_FILE of the file at 0-based index i; past the end the name is
\* 'Processing Complete' (file Total + 1)
CurrentFileEv(w, f) == Ev("CURRENT_FILE", w, f, 0, 0, "")
FinishedEv(w, r, s) == Ev("FINISHED", w, 0, r, s, "")

FinishedPut(w) == \E i \in DOMAIN events[w] : events[w][i].type = "FINISHED"

\* put() by the GUI thread of n events
GuiPut(n) ==
    lateEvents' = IF jobs > 0 /\ FinishedPut(jobs)
                  THEN Min(lateEvents + n, MaxLate) ELSE lateEvents

\* faulty variant of LockFree: the worker thread does not take process_lock
LockFree_notTaken == TRUE

\* `with self.process_lock' is entered by the GUI thread in skip_current_file
\* and held across its steps; every other holder takes and releases it within
\* one step.
LockFree == gui # "skip_set"

\* Popen.terminate()/kill() on a process object
Killed(p) == IF p = "running" THEN "exitN" ELSE p

\* faulty variant of Exists: the output path is never found
Exists_neverFound(o, f) == FALSE

\* os.path.exists(output_file_path); os.remove(output_file_path)
Exists(o, f) == o[f] # "none"
Removed(o, f) == [o EXCEPT ![f] = "none"]

\* ---- File Disposition: handle_original_file ----
\* the files of the job's list, settings["files"]
JobFiles == 1..Total

\* `for file_path in settings.get("files", []): if os.path.basename(file_path)
\* == file_name: source_dir = os.path.dirname(file_path); break': the file the
\* handler acts on is the first file of the list that has the base name of f
SourceOf(f) ==
    CHOOSE g \in JobFiles :
        /\ settings.name[g] = settings.name[f]
        /\ \A h \in JobFiles : settings.name[h] = settings.name[f] => g <= h

\* shutil.move / os.remove raise when the file is not (or no longer) in its
\* source directory
DispositionFails(o, f) ==
    /\ settings.file_action \in {FILE_ACTION_MOVE, FILE_ACTION_DELETE}
    /\ o[SourceOf(f)] # "present"

\* "moved": in the 'Remuxed' subfolder of the directory the file was in
\* (os.path.join(source_dir, "Remuxed")); the exception of a failing move or
\* remove is caught and logged as a warning
HandleOriginal(o, f) ==
    IF DispositionFails(o, f) THEN o
    ELSE IF settings.file_action = FILE_ACTION_MOVE
    THEN [o EXCEPT ![SourceOf(f)] = "moved"]
    ELSE IF settings.file_action = FILE_ACTION_DELETE
    THEN [o EXCEPT ![SourceOf(f)] = "deleted"]
    ELSE o

HandleOriginalLog(w, o, f) ==
    IF DispositionFails(o, f)
    THEN <<LogEv(w, f, "warn_disposition")>>
    ELSE <<>>

\* preserve_file_timestamps: os.stat(source_file) and os.utime(target_file)
\* raise when either file is missing, or for a reason outside the program
\* (env_ok = FALSE); the function then logs a warning and returns False
TimestampsPreserved(env_ok, o, ou, f) ==
    env_ok /\ o[f] = "present" /\ ou[f] # "none"

\* `if settings.get("preserve_timestamps", False):' block of a successful file
TimestampLog(w, env_ok, o, ou, f) ==
    IF settings.preserve_timestamps /\ ~TimestampsPreserved(env_ok, o, ou, f)
    THEN <<LogEv(w, f, "warn_timestamps")>>
    ELSE <<>>

\* faulty variant of SkipDisposition: the original of a skipped file is left
\* where it is
SkipDisposition_never(o, f) == o

\* the `if settings.get("file_action") == FILE_ACTION_MOVE' blocks on a skip
SkipDisposition(o, f) ==
    IF settings.file_action = FILE_ACTION_MOVE THEN HandleOriginal(o, f) ELSE o
SkipDispositionLog(w, o, f) ==
    IF settings.file_action = FILE_ACTION_MOVE THEN HandleOriginalLog(w, o, f) ELSE <<>>

\* events put after self.current_file_index += 1 (idx is the new index)
AdvanceEvents(w, idx) ==
    <<ProgressEv(w, idx),
      CurrentFileEv(w, IF idx < Total THEN idx + 1 ELSE Total + 1)>>

\* history of a pre-start pause: the index and the skipped counter with which
\* the worker entered the pause loop, the skip requests issued since, and
\* whether the pause is undisturbed (no skip pending at entry, never resumed
\* since)
NoPause == [idx |-> 0, sk |-> 0, n |-> 0, ok |-> FALSE]
InPauseLoop(w) == pc[w] \in {"pl_while", "pl_cancel", "pl_skip", "pl_doskip"}
Resumed(p) == [w \in Workers |-> [p[w] EXCEPT !.ok = FALSE]]

\* ---- initial state ----
\* the job engine as constructed
InitEngine ==
    /\ pause_event = TRUE
    /\ cancel_event = FALSE
    /\ skip_event = FALSE
    /\ current_process = 0
    /\ current_file_index = 0
    /\ events = [w \in Workers |-> <<>>]
    /\ lateEvents = 0
    /\ skipResetPending = FALSE
    /\ finishedPending = 0
    /\ gui = "idle"
    /\ was_paused = FALSE
    /\ btn_pause = FALSE
    /\ btn_skip = FALSE
    /\ jobs = 0
    /\ pc = [w \in Workers |-> "unborn"]
    /\ remuxed_count = [w \in Workers |-> 0]
    /\ skipped_count = [w \in Workers |-> 0]
    /\ ctx = [w \in Workers |-> 1]
    /\ res = [w \in Workers |-> "none"]
    /\ proc = [w \in Workers |-> "none"]
    /\ command = [w \in Workers |-> <<>>]
    /\ preview = <<>>
    /\ orig = [f \in Files |-> "present"]
    /\ outcome = [w \in Workers |-> [f \in Files |-> "pending"]]
    /\ observed = [w \in Workers |-> FALSE]
    /\ req = 0
    /\ ps = [w \in Workers |-> NoPause]
    /\ clicks = 0

\* a probe answer of ffprobe: the standard output and exit of the frame-rate
\* query ("frac": `num/den' with exit code 0) and of the duration query
\* ("ok": the seconds with exit code 0)
FpsAnswers ==
    {[k |-> "frac", num |-> 30, den |-> 1], [k |-> "frac", num |-> 0, den |-> 0],
     [k |-> "fail", num |-> 0, den |-> 0], [k |-> "timeout", num |-> 0, den |-> 0]}
DurationAnswers ==
    {[k |-> "ok", secs |-> 10], [k |-> "nonzero", secs |-> 0],
     [k |-> "timeout", secs |-> 0]}
\* the other standard outputs of the frame-rate query with exit code 0: a
\* fraction that reduces ("60/2"), a zero denominator ("30/0"), the empty
\* text, a bare number ("25"), a text float() rejects ("abc") and a text
\* with a slash that is no fraction of integers ("N/A")
FpsAnswersAll ==
    FpsAnswers \cup
    {[k |-> "frac", num |-> 60, den |-> 2], [k |-> "frac", num |-> 30, den |-> 0],
     [k |-> "empty", num |-> 0, den |-> 0], [k |-> "number", num |-> 25, den |-> 1],
     [k |-> "text", num |-> 0, den |-> 0], [k |-> "slash_text", num |-> 0, den |-> 0]}
\* len(get_audio_track_info(file_path)): the number of audio tracks, 0 also
\* when the audio query fails
AudioAnswers == {0, 2}
Paths == 1..NumPaths
QuietProbe == [k |-> "frac", num |-> 30, den |-> 1]
QuietDuration == [k |-> "ok", secs |-> 10]

\* history of a scan: whether an exception has escaped the pool block, the
\* results and the number of handled futures at that moment, and the list
\* positions whose probe had completed, and of those in flight, when the
\* cancel was observed
NoScanHist ==
    [failed |-> FALSE, kept |-> <<>>, at |-> 0, probed |-> {}, inflight |-> {}]

\* no scan worker is running
ScanIdle ==
    /\ scan_files = <<>>
    /\ probe = [p \in Paths |-> [fps |-> QuietProbe, dur |-> QuietDuration,
                                  audio |-> 2]]
    /\ validate_files = TRUE
    /\ max_workers = 1
    /\ future = <<>>
    /\ collected = <<>>
    /\ results = <<>>
    /\ scan_pc = "idle"
    /\ scan_msg = [sent |-> FALSE, results |-> <<>>]
    /\ scan_cancelled = FALSE
    /\ remaining_files = {}
    /\ scan_events = <<>>
    /\ scan_hist = NoScanHist

\* constructed, files selected, scan complete
InitState ==
    /\ InitEngine
    /\ btn_cancel = TRUE
    /\ uiPhase = "scanned"
    /\ ScanIdle

\* the inputs of a job: the scan results, the outputs already on disk and the
\* settings
Init ==
    /\ InitState
    /\ out \in [Files -> {"none", "pre"}]
    /\ settings \in [total : {NumFiles},
                     valid : [Files -> BOOLEAN],
                     overwrite_existing : BOOLEAN,
                     file_action : {FILE_ACTION_MOVE, FILE_ACTION_KEEP, FILE_ACTION_DELETE},
                     name : {[f \in Files |-> f]},
                     preserve_timestamps : {FALSE},
                     include_audio : {TRUE},
                     use_timescale : {FALSE},
                     output_dir : {""},
                     output_format : {".mp4"},
                     fps : {[f \in Files |-> "30.0"]}]


\* ======================= GUI thread =======================

\* start_remuxing_process: enables the buttons, clears cancel, resumes, and
\* starts the worker thread of the next job
start_remuxing_process ==
    /\ gui = "idle" /\ uiPhase = "scanned" /\ jobs < MaxJobs
    /\ btn_pause' = TRUE /\ btn_skip' = TRUE /\ btn_cancel' = TRUE
    /\ cancel_event' = FALSE
    /\ pause_event' = TRUE
    /\ ps' = Resumed(ps)
    /\ lateEvents' = 0
    /\ jobs' = jobs + 1
    /\ pc' = [pc EXCEPT ![jobs + 1] = "start"]
    /\ uiPhase' = "remuxing"
    /\ UNCHANGED <<clicks, skip_event, current_process, current_file_index, events,
                   skipResetPending, finishedPending, gui, was_paused,
                   remuxed_count, skipped_count, ctx, res, observed, proc,
                   diskVars, settings, preview, command, scanVars, outcome, req>>

\* toggle_pause
toggle_pause ==
    /\ gui = "idle" /\ btn_pause /\ Visible
    /\ Click
    /\ pause_event' = ~pause_event
    /\ GuiPut(2)
    /\ req' = IF req \in {0, -2} THEN -2 ELSE -1
    /\ ps' = IF pause_event THEN ps ELSE Resumed(ps)
    /\ UNCHANGED <<cancel_event, skip_event, current_process, current_file_index,
                   events, skipResetPending, finishedPending, gui, was_paused,
                   btnVars, uiPhase, jobs, workerVars, proc, diskVars, settings, preview, command, scanVars, outcome>>

\* skip_current_file, first part: takes process_lock, logs, terminates and
\* kills the process current_process refers to and clears the reference
skip_current_file ==
    /\ gui = "idle" /\ btn_skip /\ Visible
    /\ Click
    /\ req' = IF req = 0 /\ \E w \in Workers : proc[w] = "running"
              THEN ctx[CHOOSE w \in Workers : proc[w] = "running"]
              ELSE -1
    /\ GuiPut(1)
    /\ proc' = IF current_process # 0
               THEN [proc EXCEPT ![current_process] = Killed(@)]
               ELSE proc
    /\ current_process' = 0
    /\ gui' = "skip_set"
    /\ UNCHANGED <<sigVars, current_file_index, events, skipResetPending,
                   finishedPending, was_paused, btnVars, uiPhase, jobs,
                   workerVars, diskVars, settings, preview, command, scanVars, outcome, ps>>

\* skip_current_file, second part: skip_event.set(), logs, releases the lock
skip_current_file_set ==
    /\ gui = "skip_set"
    /\ skip_event' = TRUE
    /\ ps' = [w \in Workers |->
               IF InPauseLoop(w) THEN [ps[w] EXCEPT !.n = @ + 1] ELSE ps[w]]
    /\ GuiPut(1)
    /\ gui' = "idle"
    /\ UNCHANGED <<clicks, pause_event, cancel_event, current_process, current_file_index,
                   events, skipResetPending, finishedPending, was_paused,
                   btnVars, uiPhase, jobs, workerVars, proc, diskVars, settings, preview, command, scanVars, outcome, req>>

\* cancel_processing up to the confirmation dialog: pauses the job
cancel_processing ==
    /\ gui = "idle" /\ btn_cancel /\ Visible
    /\ Click
    /\ was_paused' = ~pause_event
    /\ pause_event' = FALSE
    /\ gui' = "cancel_dialog"
    /\ req' = -1
    /\ UNCHANGED <<cancel_event, skip_event, current_process, current_file_index,
                   events, lateEvents, skipResetPending, finishedPending,
                   btnVars, uiPhase, jobs, workerVars, proc, diskVars, settings, preview, command, scanVars, outcome, ps>>

\* the user answers No: the previous pause state is restored
cancel_processing_no ==
    /\ gui = "cancel_dialog"
    /\ pause_event' = IF was_paused THEN pause_event ELSE TRUE
    /\ GuiPut(IF was_paused THEN 0 ELSE 1)
    /\ gui' = "idle"
    /\ ps' = IF was_paused THEN ps ELSE Resumed(ps)
    /\ UNCHANGED <<clicks, cancel_event, skip_event, current_process, current_file_index,
                   events, skipResetPending, finishedPending, was_paused,
                   btnVars, uiPhase, jobs, workerVars, proc, diskVars, settings, preview, command, scanVars, outcome, req>>

\* the user answers Yes: cancel_event.set()
cancel_processing_yes ==
    /\ gui = "cancel_dialog"
    /\ cancel_event' = TRUE
    /\ gui' = "cancel_terminate"
    /\ UNCHANGED <<clicks, pause_event, skip_event, current_process, current_file_index,
                   events, lateEvents, skipResetPending, finishedPending,
                   was_paused, btnVars, uiPhase, jobs, workerVars, proc,
                   diskVars, settings, preview, command, scanVars, histVars>>

\* with process_lock: terminate the process current_process refers to
cancel_processing_terminate ==
    /\ gui = "cancel_terminate"
    /\ proc' = IF current_process # 0
               THEN [proc EXCEPT ![current_process] = Killed(@)]
               ELSE proc
    /\ GuiPut(IF current_process # 0 THEN 1 ELSE 0)
    /\ gui' = "cancel_reset"
    /\ UNCHANGED <<clicks, sigVars, current_process, current_file_index, events,
                   skipResetPending, finishedPending, was_paused, btnVars,
                   uiPhase, jobs, workerVars, diskVars, settings, preview, command, scanVars, histVars>>

\* reset_ui_after_processing, then the closing LOG of cancel_processing
cancel_processing_reset ==
    /\ gui = "cancel_reset"
    /\ btn_pause' = FALSE /\ btn_skip' = FALSE /\ btn_cancel' = FALSE
    /\ current_process' = 0
    /\ uiPhase' = "idle"
    /\ GuiPut(1)
    /\ gui' = "idle"
    /\ UNCHANGED <<clicks, sigVars, current_file_index, events, skipResetPending,
                   finishedPending, was_paused, jobs, workerVars, proc,
                   diskVars, settings, preview, command, scanVars, histVars>>

\* check_queue reaching a SKIP_BUTTON_RESET message (the timer also fires
\* inside the event loops of the dialogs).  The message only has an effect
\* when it is consumed while the button is disabled, so the flag stands for
\* "a SKIP_BUTTON_RESET may still be waiting" and is consumed only then.
check_queue_skip_reset ==
    /\ gui \in {"idle", "cancel_dialog", "completion"}
    /\ skipResetPending /\ ~btn_skip
    /\ skipResetPending' = FALSE
    /\ btn_skip' = TRUE
    /\ UNCHANGED <<clicks, sigVars, current_process, current_file_index, events,
                   lateEvents, finishedPending, gui, was_paused, btn_pause,
                   btn_cancel, uiPhase, jobs, workerVars, proc, diskVars,
                   settings, preview, command, scanVars, histVars>>

\* check_queue reaching a FINISHED message (every SKIP_BUTTON_RESET put before
\* it has been consumed by then): show_completion_dialog, which is modal
check_queue_finished ==
    /\ gui = "idle"
    /\ finishedPending > 0
    /\ finishedPending' = finishedPending - 1
    /\ skipResetPending' = FALSE
    /\ btn_skip' = (btn_skip \/ skipResetPending)
    /\ gui' = "completion"
    /\ UNCHANGED <<clicks, sigVars, current_process, current_file_index, events,
                   lateEvents, was_paused, btn_pause, btn_cancel, uiPhase,
                   jobs, workerVars, proc, diskVars, settings, preview, command, scanVars, histVars>>

\* close_completion_dialog / open_output_directory_and_close:
\* reset_ui_after_processing; "Open Location" also puts a LOG
close_completion_dialog ==
    /\ gui = "completion"
    /\ \E open \in BOOLEAN : GuiPut(IF open THEN 1 ELSE 0)
    /\ btn_pause' = FALSE /\ btn_skip' = FALSE /\ btn_cancel' = FALSE
    /\ current_process' = 0
    /\ uiPhase' = "idle"
    /\ gui' = "idle"
    /\ UNCHANGED <<clicks, sigVars, current_file_index, events, skipResetPending,
                   finishedPending, was_paused, jobs, workerVars, proc,
                   diskVars, settings, preview, command, scanVars, histVars>>

\* dropEvent -> start_automatic_scan -> start_scan_thread: clears cancel_event
\* and starts a scan of the dropped files (drops are accepted in every phase)
dropEvent ==
    /\ gui = "idle" /\ uiPhase # "scanning" /\ jobs < MaxJobs
    /\ Click
    /\ cancel_event' = FALSE
    /\ GuiPut(3)
    /\ uiPhase' = "scanning"
    /\ req' = -1
    /\ UNCHANGED <<pause_event, skip_event, current_process, current_file_index,
                   events, skipResetPending, finishedPending, gui, was_paused,
                   btnVars, jobs, workerVars, proc, diskVars, settings, preview, command, scanVars, outcome, ps>>

\* check_queue reaching SCAN_COMPLETE: Start Remux and Cancel are enabled
check_queue_scan_complete ==
    /\ gui \in {"idle", "cancel_dialog", "completion"}
    /\ uiPhase = "scanning"
    /\ uiPhase' = "scanned"
    /\ btn_cancel' = TRUE
    /\ UNCHANGED <<clicks, sigVars, current_process, current_file_index, events,
                   lateEvents, skipResetPending, finishedPending, gui,
                   was_paused, btn_pause, btn_skip, jobs, workerVars, proc,
                   diskVars, settings, preview, command, scanVars, histVars>>


\* ======================= worker thread: remux_videos_worker =======================

guiVars == <<gui, was_paused, btn_pause, btn_skip, btn_cancel, uiPhase, jobs, lateEvents>>
Goto(w, l) == pc' = [pc EXCEPT ![w] = l]
Put(w, evs) == events' = [events EXCEPT ![w] = @ \o evs]
Classify(w, f, o) == outcome' = [outcome EXCEPT ![w][f] = o]
Count(c, w) == [c EXCEPT ![w] = @ + 1]

\* faulty variant of CancelledEvents: FINISHED is also put where the
\* cancellation is seen, and again after the loop
CancelledEvents_alsoFinished(w) ==
    <<LogEv(w, 0, "cancelled"), FinishedEv(w, remuxed_count[w], skipped_count[w])>>

\* the events put where the loop sees cancel_event set: a LOG, then `break'
CancelledEvents(w) == <<LogEv(w, 0, "cancelled")>>

\* thread start: file_queue copied, counters zeroed, current_file_index = 0
W_start(w) ==
    /\ pc[w] = "start"
    /\ current_file_index' = 0
    /\ remuxed_count' = [remuxed_count EXCEPT ![w] = 0]
    /\ skipped_count' = [skipped_count EXCEPT ![w] = 0]
    /\ Goto(w, "loop")
    /\ UNCHANGED <<clicks, req, ps, sigVars, current_process, events, skipResetPending,
                   finishedPending, guiVars, ctx, res, observed, proc,
                   diskVars, settings, preview, command, scanVars, outcome>>

\* head of the while loop: loop condition, cancel check, the three events
\* announcing the file
W_loop(w) ==
    /\ pc[w] = "loop"
    /\ IF current_file_index >= Total
       THEN /\ Goto(w, "finish")
            /\ UNCHANGED <<events, ctx, observed>>
       ELSE IF cancel_event
       THEN /\ Put(w, CancelledEvents(w))
            /\ observed' = [observed EXCEPT ![w] = TRUE]
            /\ Goto(w, "finish")
            /\ UNCHANGED ctx
       ELSE /\ ctx' = [ctx EXCEPT ![w] = current_file_index + 1]
            /\ Put(w, <<LogEv(w, current_file_index + 1, "processing"),
                     ProgressEv(w, current_file_index),
                     CurrentFileEv(w, current_file_index + 1)>>)
            /\ Goto(w, "chk_pause")
            /\ UNCHANGED observed
    /\ UNCHANGED <<clicks, req, ps, sigVars, current_process, current_file_index,
                   skipResetPending, finishedPending, guiVars, remuxed_count,
                   skipped_count, res, proc, diskVars, settings, preview, command, scanVars, outcome>>

\* `if not self.pause_event.is_set():'
W_chk_pause(w) ==
    /\ pc[w] = "chk_pause"
    /\ Goto(w, IF pause_event THEN "prestart" ELSE "pl_while")
    /\ ps' = [ps EXCEPT ![w] =
                 IF pause_event THEN NoPause
                 ELSE [idx |-> current_file_index, sk |-> skipped_count[w],
                       n |-> 0, ok |-> ~skip_event /\ gui # "skip_set"]]
    /\ UNCHANGED <<clicks, req, sigVars, current_process, current_file_index, events,
                   skipResetPending, finishedPending, guiVars, remuxed_count,
                   skipped_count, ctx, res, observed, proc, diskVars, settings, preview, command, scanVars,
                   outcome>>

\* `while not self.pause_event.is_set():'
W_pl_while(w) ==
    /\ pc[w] = "pl_while"
    /\ Goto(w, IF pause_event THEN "after_pause" ELSE "pl_cancel")
    /\ ps' = [ps EXCEPT ![w] = IF pause_event THEN NoPause ELSE @]
    /\ UNCHANGED <<clicks, req, sigVars, current_process, current_file_index, events,
                   skipResetPending, finishedPending, guiVars, remuxed_count,
                   skipped_count, ctx, res, observed, proc, diskVars, settings, preview, command, scanVars,
                   outcome>>

\* cancel check inside the pause loop
W_pl_cancel(w) ==
    /\ pc[w] = "pl_cancel"
    /\ IF cancel_event
       THEN /\ Put(w, CancelledEvents(w))
            /\ observed' = [observed EXCEPT ![w] = TRUE]
            /\ Goto(w, "after_pause")
       ELSE /\ Goto(w, "pl_skip")
            /\ UNCHANGED <<events, observed>>
    /\ ps' = [ps EXCEPT ![w] = IF cancel_event THEN NoPause ELSE @]
    /\ UNCHANGED <<clicks, req, sigVars, current_process, current_file_index,
                   skipResetPending, finishedPending, guiVars, remuxed_count,
                   skipped_count, ctx, res, proc, diskVars, settings, preview, command, scanVars, outcome>>

\* skip check inside the pause loop; else time.sleep(0.1)
W_pl_skip(w) ==
    /\ pc[w] = "pl_skip"
    /\ Goto(w, IF skip_event THEN "pl_doskip" ELSE "pl_while")
    /\ UNCHANGED <<clicks, req, ps, sigVars, current_process, current_file_index, events,
                   skipResetPending, finishedPending, guiVars, remuxed_count,
                   skipped_count, ctx, res, observed, proc, diskVars, settings, preview, command, scanVars,
                   outcome>>

\* skip while paused: clear, count, log, disposition, advance, next file's
\* events and local context
W_pl_doskip(w) ==
    /\ pc[w] = "pl_doskip"
    /\ skip_event' = FALSE
    /\ skipped_count' = Count(skipped_count, w)
    /\ current_file_index' = current_file_index + 1
    /\ orig' = SkipDisposition(orig, ctx[w])
    /\ Put(w, <<LogEv(w, ctx[w], "skip_paused")>>
           \o SkipDispositionLog(w, orig, ctx[w])
           \o AdvanceEvents(w, current_file_index + 1))
    /\ Classify(w, ctx[w], "skipped_paused")
    /\ IF current_file_index + 1 < Total
       THEN /\ ctx' = [ctx EXCEPT ![w] = current_file_index + 2]
            /\ Goto(w, "pl_while")
       ELSE /\ Goto(w, "after_pause")
            /\ UNCHANGED ctx
    /\ ps' = [ps EXCEPT ![w] = IF current_file_index + 1 < Total THEN @ ELSE NoPause]
    /\ UNCHANGED <<clicks, req, pause_event, cancel_event, current_process, skipResetPending,
                   finishedPending, guiVars, remuxed_count, res, observed, proc,
                   out, settings, preview, command, scanVars>>

\* after the pause loop: stop if cancelled or past the last file
W_after_pause(w) ==
    /\ pc[w] = "after_pause"
    /\ IF cancel_event
       THEN /\ observed' = [observed EXCEPT ![w] = TRUE]
            /\ Goto(w, "finish")
       ELSE /\ Goto(w, IF current_file_index >= Total THEN "finish" ELSE "prestart")
            /\ UNCHANGED observed
    /\ UNCHANGED <<clicks, req, ps, sigVars, current_process, current_file_index, events,
                   skipResetPending, finishedPending, guiVars, remuxed_count,
                   skipped_count, ctx, res, proc, diskVars, settings, preview, command, scanVars, outcome>>

\* `if self.skip_event.is_set():' before starting
W_prestart(w) ==
    /\ pc[w] = "prestart"
    /\ Goto(w, IF skip_event THEN "ps_doskip" ELSE "ps_valid")
    /\ UNCHANGED <<clicks, req, ps, sigVars, current_process, current_file_index, events,
                   skipResetPending, finishedPending, guiVars, remuxed_count,
                   skipped_count, ctx, res, observed, proc, diskVars, settings, preview, command, scanVars,
                   outcome>>

\* pre-start skip: clear, count, log, disposition, advance, continue
W_ps_doskip(w) ==
    /\ pc[w] = "ps_doskip"
    /\ skip_event' = FALSE
    /\ skipped_count' = Count(skipped_count, w)
    /\ current_file_index' = current_file_index + 1
    /\ orig' = SkipDisposition(orig, ctx[w])
    /\ Put(w, <<LogEv(w, ctx[w], "skip_prestart")>>
           \o SkipDispositionLog(w, orig, ctx[w])
           \o AdvanceEvents(w, current_file_index + 1))
    /\ Classify(w, ctx[w], "skipped_prestart")
    /\ Goto(w, "loop")
    /\ UNCHANGED <<clicks, req, ps, pause_event, cancel_event, current_process, skipResetPending,
                   finishedPending, guiVars, remuxed_count, ctx, res, observed,
                   proc, out, settings, preview, command, scanVars>>

\* faulty variant of DescriptorValid: the default of a missing descriptor is
\* taken for every file
DescriptorValid_defaultTaken(f) == TRUE

\* scan_result.get('valid', True) of the file in the local context
DescriptorValid(f) == settings.valid[f]

\* ---- build_ffmpeg_command ----
\* the frame rate of a descriptor is None ("None") or the text stored by the
\* scan: str(num / den), or the text of ffprobe when float() accepts it
FpsTexts == {"None", "30.0", "0.0"}

\* `if timescale:' (None and the empty text are false)
Truthy(t) == t \notin {"None", ""}

\* float(timescale) returns (it raises ValueError otherwise)
FloatAccepts(t) == t \in {"30.0", "0.0", "25", "23.976"}

InputPath(f) == "input" \o ToString(f)
\* os.path.dirname(video_file_path) of file f
Dirname(f) == "dir" \o ToString(f)
\* os.path.splitext(os.path.basename(video_file_path))[0] of file f
NameNoExt(f) == "name" \o ToString(settings.name[f])
\* os.path.join(directory, name)
Join(d, n) == d \o "/" \o n
\* output_dir_final: settings["output_dir"] or the directory of the file
OutputDirFinal(f) ==
    IF settings.output_dir # "" THEN settings.output_dir ELSE Dirname(f)
\* output_file_path of build_ffmpeg_command
OutputPath(f) == Join(OutputDirFinal(f), NameNoExt(f) \o settings.output_format)

\* faulty variant of AudioArgs: the audio is copied whatever the setting
AudioArgs_alwaysCopied(include_audio) == <<"-map", "0:v", "-map", "0:a", "-c:a", "copy">>

\* `if settings["include_audio"]: ... else: command.extend(["-an"])'
AudioArgs(include_audio) ==
    IF include_audio THEN <<"-map", "0:v", "-map", "0:a", "-c:a", "copy">>
    ELSE <<"-an">>

\* the `if settings["use_timescale"]:' block: the arguments it appends
TimescaleArgs(use_timescale, t) ==
    IF use_timescale /\ Truthy(t) /\ FloatAccepts(t)
    THEN <<"-video_track_timescale", t>>
    ELSE <<>>

\* the `if settings["use_timescale"]:' block: the warnings it logs
TimescaleWarnings(w, f, use_timescale, t) ==
    IF ~use_timescale THEN <<>>
    ELSE IF ~Truthy(t) THEN <<LogEv(w, f, "warn_no_fps")>>
    ELSE IF ~FloatAccepts(t) THEN <<LogEv(w, f, "warn_invalid_timescale")>>
    ELSE <<>>

\* build_ffmpeg_command of file f: the command list
BuildCommand(f) ==
    <<"ffmpeg", "-y", "-i", InputPath(f), "-c:v", "copy">>
        \o AudioArgs(settings.include_audio)
        \o TimescaleArgs(settings.use_timescale, settings.fps[f])
        \o <<OutputPath(f)>>

\* ---- generate_preview_commands ----
\* faulty variant of PreviewOutputPath: the output directory is not consulted
PreviewOutputPath_sourceDir(f) ==
    Join(Dirname(f), NameNoExt(f) \o settings.output_format)

\* output_file_path of generate_preview_commands; the format is read from
\* self.output_format, the attribute settings["output_format"] is a copy of
PreviewOutputPath(f) ==
    Join(IF settings.output_dir # "" THEN settings.output_dir ELSE Dirname(f),
         NameNoExt(f) \o settings.output_format)

\* `if settings["include_audio"]: ... else: command.extend(["-an"])'
PreviewAudioArgs(include_audio) ==
    IF include_audio THEN <<"-map", "0:v", "-map", "0:a", "-c:a", "copy">>
    ELSE <<"-an">>

\* the `if settings["use_timescale"]:' block of the preview: no warning is
\* logged, a ValueError of float() is passed over
PreviewTimescaleArgs(use_timescale, t) ==
    IF use_timescale
    THEN IF Truthy(t)
         THEN IF FloatAccepts(t) THEN <<"-video_track_timescale", t>> ELSE <<>>
         ELSE <<>>
    ELSE <<>>

\* the command list generate_preview_commands makes for file f
PreviewCommand(f) ==
    <<"ffmpeg", "-y", "-i", InputPath(f), "-c:v", "copy">>
        \o PreviewAudioArgs(settings.include_audio)
        \o PreviewTimescaleArgs(settings.use_timescale, settings.fps[f])
        \o <<PreviewOutputPath(f)>>

\* SKIP_BUTTON_RESET, then the validity check of the descriptor, then
\* build_ffmpeg_command
W_ps_valid(w) ==
    /\ pc[w] = "ps_valid"
    /\ skipResetPending' = TRUE
    /\ IF ~DescriptorValid(ctx[w])
       THEN /\ Put(w, <<LogEv(w, ctx[w], "invalid")>>)
            /\ skipped_count' = Count(skipped_count, w)
            /\ current_file_index' = current_file_index + 1
            /\ Classify(w, ctx[w], "invalid")
            /\ Goto(w, "loop")
            /\ UNCHANGED command
       ELSE /\ command' = [command EXCEPT ![w] = BuildCommand(ctx[w])]
            /\ Put(w, TimescaleWarnings(w, ctx[w], settings.use_timescale,
                                        settings.fps[ctx[w]]))
            /\ Goto(w, "exec")
            /\ UNCHANGED <<skipped_count, current_file_index, outcome>>
    /\ UNCHANGED <<clicks, req, ps, sigVars, current_process, finishedPending, guiVars,
                   remuxed_count, ctx, res, observed, proc, diskVars, settings, preview, scanVars>>


\* ======================= worker thread: execute_ffmpeg_process =======================

\* faulty variant of OutputExistsSkip: the overwrite setting is not consulted
OutputExistsSkip_overwriteIgnored(o, f) == Exists(o, f)

\* the pre-check: `if os.path.exists(output_file_path):' and not
\* settings.get("overwrite_existing", False)
OutputExistsSkip(o, f) == Exists(o, f) /\ ~settings.overwrite_existing

\* pre-check of the output path, then subprocess.Popen (spawned = FALSE: it raised)
W_exec(w) ==
    /\ pc[w] = "exec"
    /\ IF OutputExistsSkip(out, ctx[w])
       THEN /\ Put(w, <<LogEv(w, ctx[w], "exists")>>)
            /\ res' = [res EXCEPT ![w] = "skipped"]
            /\ Classify(w, ctx[w], "exists")
            /\ Goto(w, "result")
            /\ UNCHANGED proc
       ELSE \E spawned \in BOOLEAN :
            /\ UNCHANGED <<res, outcome>>
            /\ IF spawned
               THEN /\ Put(w, <<LogEv(w, ctx[w], "remuxing")>>)
                    /\ proc' = [proc EXCEPT ![w] = "running"]
                    /\ Goto(w, "store")
               ELSE /\ Put(w, <<LogEv(w, ctx[w], "remuxing"), LogEv(w, 0, "critical")>>)
                    /\ Goto(w, "except")
                    /\ UNCHANGED proc
    /\ UNCHANGED <<clicks, req, ps, sigVars, current_process, current_file_index,
                   skipResetPending, finishedPending, guiVars, remuxed_count,
                   skipped_count, ctx, observed, diskVars, settings, preview, command, scanVars>>

\* except Exception: clear the reference under the lock, SKIP_BUTTON_RESET
W_except(w) ==
    /\ pc[w] = "except" /\ LockFree
    /\ current_process' = 0
    /\ skipResetPending' = TRUE
    /\ res' = [res EXCEPT ![w] = "error"]
    /\ Classify(w, ctx[w], "error")
    /\ Goto(w, "result")
    /\ UNCHANGED <<clicks, req, ps, sigVars, current_file_index, events, finishedPending,
                   guiVars, remuxed_count, skipped_count, ctx, observed, proc,
                   diskVars, settings, preview, command, scanVars>>

\* `with self.process_lock: self.current_process = process'
W_store(w) ==
    /\ pc[w] = "store" /\ LockFree
    /\ current_process' = w
    /\ Goto(w, "mon_skip")
    /\ UNCHANGED <<clicks, req, ps, sigVars, current_file_index, events, skipResetPending,
                   finishedPending, guiVars, remuxed_count, skipped_count, ctx,
                   res, observed, proc, diskVars, settings, preview, command, scanVars, outcome>>

\* monitor loop: `if self.skip_event.is_set():'
W_mon_skip(w) ==
    /\ pc[w] = "mon_skip"
    /\ Goto(w, IF skip_event THEN "mon_doskip" ELSE "mon_cancel")
    /\ UNCHANGED <<clicks, req, ps, sigVars, current_process, current_file_index, events,
                   skipResetPending, finishedPending, guiVars, remuxed_count,
                   skipped_count, ctx, res, observed, proc, diskVars, settings, preview, command, scanVars,
                   outcome>>

\* mid-run skip: clear, log, SKIP_BUTTON_RESET, terminate and kill, remove output
W_mon_doskip(w) ==
    /\ pc[w] = "mon_doskip"
    /\ skip_event' = FALSE
    /\ Put(w, <<LogEv(w, ctx[w], "skip_midrun")>>)
    /\ skipResetPending' = TRUE
    /\ proc' = [proc EXCEPT ![w] = Killed(@)]
    /\ out' = Removed(out, ctx[w])
    /\ Goto(w, "mon_skiprel")
    /\ UNCHANGED <<clicks, req, ps, pause_event, cancel_event, current_process,
                   current_file_index, finishedPending, guiVars, remuxed_count,
                   skipped_count, ctx, res, observed, orig, settings, preview, command, scanVars, outcome>>

\* mid-run skip: release the handle under the lock, return "skipped"
W_mon_skiprel(w) ==
    /\ pc[w] = "mon_skiprel" /\ LockFree
    /\ current_process' = 0
    /\ res' = [res EXCEPT ![w] = "skipped"]
    /\ Classify(w, ctx[w], "skipped_midrun")
    /\ Goto(w, "result")
    /\ UNCHANGED <<clicks, req, ps, sigVars, current_file_index, events, skipResetPending,
                   finishedPending, guiVars, remuxed_count, skipped_count, ctx,
                   observed, proc, diskVars, settings, preview, command, scanVars>>

\* the cancel branch of the monitor loop: terminate, wait, remove the output
CancelInMonitor(w) ==
    /\ observed' = [observed EXCEPT ![w] = TRUE]
    /\ proc' = [proc EXCEPT ![w] = Killed(@)]
    /\ out' = Removed(out, ctx[w])
    /\ Goto(w, "mon_cancelrel")

\* monitor loop: `if self.cancel_event.is_set():'
W_mon_cancel(w) ==
    /\ pc[w] = "mon_cancel"
    /\ IF cancel_event
       THEN CancelInMonitor(w)
       ELSE /\ Goto(w, "mon_pause")
            /\ UNCHANGED <<observed, proc, out>>
    /\ UNCHANGED <<clicks, req, ps, sigVars, current_process, current_file_index, events,
                   skipResetPending, finishedPending, guiVars, remuxed_count,
                   skipped_count, ctx, res, orig, settings, preview, command, scanVars, outcome>>

\* cancel: release the handle under the lock, return "cancelled"
W_mon_cancelrel(w) ==
    /\ pc[w] = "mon_cancelrel" /\ LockFree
    /\ current_process' = 0
    /\ res' = [res EXCEPT ![w] = "cancelled"]
    /\ Classify(w, ctx[w], "cancelled")
    /\ Goto(w, "result")
    /\ UNCHANGED <<clicks, req, ps, sigVars, current_file_index, events, skipResetPending,
                   finishedPending, guiVars, remuxed_count, skipped_count, ctx,
                   observed, proc, diskVars, settings, preview, command, scanVars>>

\* monitor loop: `if not self.pause_event.is_set():'
W_mon_pause(w) ==
    /\ pc[w] = "mon_pause"
    /\ Goto(w, IF pause_event THEN "mon_read" ELSE "mp_wait")
    /\ UNCHANGED <<clicks, req, ps, sigVars, current_process, current_file_index, events,
                   skipResetPending, finishedPending, guiVars, remuxed_count,
                   skipped_count, ctx, res, observed, proc, diskVars, settings, preview, command, scanVars,
                   outcome>>

\* `while not pause_event.is_set() and not cancel_event.is_set() and not
\* skip_event.is_set(): time.sleep(0.1)': the condition that ends the wait
WaitOver == pause_event \/ cancel_event \/ skip_event

\* the spin-wait of the monitor loop ends when resumed, cancelled or skipped
W_mp_wait(w) ==
    /\ pc[w] = "mp_wait"
    /\ WaitOver
    /\ Goto(w, "mp_cancel")
    /\ UNCHANGED <<clicks, req, ps, sigVars, current_process, current_file_index, events,
                   skipResetPending, finishedPending, guiVars, remuxed_count,
                   skipped_count, ctx, res, observed, proc, diskVars, settings, preview, command, scanVars,
                   outcome>>

\* faulty variant of CancelledWhilePaused: a resumed job is taken for a
\* cancelled one
CancelledWhilePaused_orResumed == cancel_event \/ pause_event

\* `if self.cancel_event.is_set():' after the spin-wait
CancelledWhilePaused == cancel_event

\* after the spin-wait: cancel is handled here, skip and resume `continue'
W_mp_cancel(w) ==
    /\ pc[w] = "mp_cancel"
    /\ IF CancelledWhilePaused
       THEN CancelInMonitor(w)
       ELSE /\ Goto(w, "mon_skip")
            /\ UNCHANGED <<observed, proc, out>>
    /\ UNCHANGED <<clicks, req, ps, sigVars, current_process, current_file_index, events,
                   skipResetPending, finishedPending, guiVars, remuxed_count,
                   skipped_count, ctx, res, orig, settings, preview, command, scanVars, outcome>>

\* process.stdout.readline(): returns a line while the process runs, and ''
\* with poll() not None once it has exited
W_mon_read(w) ==
    /\ pc[w] = "mon_read"
    /\ Goto(w, IF proc[w] = "running" THEN "mon_skip" ELSE "post")
    /\ UNCHANGED <<clicks, req, ps, sigVars, current_process, current_file_index, events,
                   skipResetPending, finishedPending, guiVars, remuxed_count,
                   skipped_count, ctx, res, observed, proc, diskVars, settings, preview, command, scanVars,
                   outcome>>

\* process.wait(); clear the reference under the lock; SKIP_BUTTON_RESET
W_post(w) ==
    /\ pc[w] = "post" /\ LockFree
    /\ current_process' = 0
    /\ skipResetPending' = TRUE
    /\ Goto(w, "post_cancel")
    /\ UNCHANGED <<clicks, req, ps, sigVars, current_file_index, events, finishedPending,
                   guiVars, remuxed_count, skipped_count, ctx, res, observed,
                   proc, diskVars, settings, preview, command, scanVars, outcome>>

\* faulty variant of ExitResult: the return code is not looked at
ExitResult_codeIgnored(p) == "completed"

\* exit-code classification: "completed" for return code 0, else "error"
ExitResult(p) == IF p = "exit0" THEN "completed" ELSE "error"

\* faulty variant of SuccessResult: a failure of the timestamp preservation
\* or of the disposition reaches the `except Exception' of
\* execute_ffmpeg_process
SuccessResult_failureRaised(ts_failed, disp_failed) ==
    IF ts_failed \/ disp_failed THEN "error" ELSE "completed"

\* the `if process.returncode == 0:' block: preserve_file_timestamps and
\* handle_original_file catch their exceptions and log, then
\* `return "completed"'
SuccessResult(ts_failed, disp_failed) == "completed"

\* after the loop: cancel check, then the exit code; on success the
\* timestamps and handle_original_file
W_post_cancel(w) ==
    /\ pc[w] = "post_cancel"
    /\ IF cancel_event
       THEN /\ observed' = [observed EXCEPT ![w] = TRUE]
            /\ out' = Removed(out, ctx[w])
            /\ res' = [res EXCEPT ![w] = "cancelled"]
            /\ Classify(w, ctx[w], "cancelled")
            /\ UNCHANGED <<events, orig>>
       ELSE /\ UNCHANGED <<observed, out>>
            /\ IF ExitResult(proc[w]) = "completed"
               THEN \E env_ok \in BOOLEAN :
                    LET r == SuccessResult(
                                 settings.preserve_timestamps
                                   /\ ~TimestampsPreserved(env_ok, orig, out, ctx[w]),
                                 DispositionFails(orig, ctx[w]))
                    IN  /\ res' = [res EXCEPT ![w] = r]
                        /\ Classify(w, ctx[w], r)
                        /\ orig' = HandleOriginal(orig, ctx[w])
                        /\ Put(w, <<LogEv(w, 0, "success")>>
                               \o TimestampLog(w, env_ok, orig, out, ctx[w])
                               \o HandleOriginalLog(w, orig, ctx[w]))
               ELSE /\ res' = [res EXCEPT ![w] = ExitResult(proc[w])]
                    /\ Classify(w, ctx[w], ExitResult(proc[w]))
                    /\ Put(w, <<LogEv(w, ctx[w], "failed")>>)
                    /\ UNCHANGED orig
    /\ Goto(w, "result")
    /\ UNCHANGED <<clicks, req, ps, sigVars, current_process, current_file_index,
                   skipResetPending, finishedPending, guiVars, remuxed_count,
                   skipped_count, ctx, proc, settings, preview, command, scanVars>>

\* faulty variant of CountsAsRemuxed: `remuxed_count += 1' is missing
CountsAsRemuxed_never(r) == FALSE

\* faulty variant of AfterResult: an error also breaks out of the loop
AfterResult_errorBreaks(r) == IF r \in {"cancelled", "error"} THEN "finish" ELSE "loop"

\* `if result == ...' chain: which results count as remuxed and as skipped,
\* and where the loop goes next ("cancelled" breaks out of it)
CountsAsRemuxed(r) == r = "completed"
CountsAsSkipped(r) == r \in {"error", "skipped"}
AfterResult(r) == IF r = "cancelled" THEN "finish" ELSE "loop"

\* back in remux_videos_worker: handle the result, advance, next file's events
W_result(w) ==
    /\ pc[w] = "result"
    /\ proc' = [proc EXCEPT ![w] = "none"]
    /\ Goto(w, AfterResult(res[w]))
    /\ IF res[w] = "cancelled"
       THEN UNCHANGED <<events, remuxed_count, skipped_count,
                        current_file_index, orig>>
       ELSE /\ remuxed_count' = IF CountsAsRemuxed(res[w])
                                THEN Count(remuxed_count, w) ELSE remuxed_count
            /\ skipped_count' = IF CountsAsSkipped(res[w])
                                THEN Count(skipped_count, w) ELSE skipped_count
            /\ current_file_index' = current_file_index + 1
            /\ orig' = IF res[w] = "skipped"
                       THEN SkipDisposition(orig, ctx[w]) ELSE orig
            /\ Put(w, <<LogEv(w, ctx[w], "debug_" \o res[w])>>
                   \o (IF res[w] = "skipped"
                       THEN SkipDispositionLog(w, orig, ctx[w]) ELSE <<>>)
                   \o AdvanceEvents(w, current_file_index + 1)
                   \o <<LogEv(w, 0, "debug_next")>>)
    /\ UNCHANGED <<clicks, req, ps, sigVars, current_process, skipResetPending, finishedPending,
                   guiVars, ctx, res, observed, out, settings, preview, command, scanVars, outcome>>

\* after the loop: the closing PROGRESS and FINISHED
W_finish(w) ==
    /\ pc[w] = "finish"
    /\ Put(w, <<ProgressEv(w, Total),
             FinishedEv(w, remuxed_count[w], skipped_count[w])>>)
    /\ finishedPending' = finishedPending + 1
    /\ Goto(w, "done")
    /\ UNCHANGED <<clicks, req, ps, sigVars, current_process, current_file_index,
                   skipResetPending, guiVars, remuxed_count, skipped_count,
                   ctx, res, observed, proc, diskVars, settings, preview, command, scanVars, outcome>>

Worker(w) ==
    \/ W_start(w) \/ W_loop(w) \/ W_chk_pause(w) \/ W_pl_while(w)
    \/ W_pl_cancel(w) \/ W_pl_skip(w) \/ W_pl_doskip(w) \/ W_after_pause(w)
    \/ W_prestart(w) \/ W_ps_doskip(w) \/ W_ps_valid(w) \/ W_exec(w)
    \/ W_except(w) \/ W_store(w) \/ W_mon_skip(w) \/ W_mon_doskip(w)
    \/ W_mon_skiprel(w) \/ W_mon_cancel(w) \/ W_mon_cancelrel(w)
    \/ W_mon_pause(w) \/ W_mp_wait(w) \/ W_mp_cancel(w) \/ W_mon_read(w)
    \/ W_post(w) \/ W_post_cancel(w) \/ W_result(w) \/ W_finish(w)

\* ======================= the ffmpeg process =======================

\* ffmpeg opens (and with -y truncates) its output file
P_write(w) ==
    /\ proc[w] = "running" /\ out[ctx[w]] # "partial"
    /\ out' = [out EXCEPT ![ctx[w]] = "partial"]
    /\ UNCHANGED <<clicks, req, ps, sigVars, current_process, current_file_index, events,
                   skipResetPending, finishedPending, guiVars, workerVars,
                   proc, orig, settings, preview, command, scanVars, outcome>>

\* ffmpeg exits on its own: code 0 with the output complete, or non-zero
P_exit(w) ==
    /\ proc[w] = "running"
    /\ \E code \in {"exit0", "exitN"} :
         /\ proc' = [proc EXCEPT ![w] = code]
         /\ out' = IF code = "exit0" THEN [out EXCEPT ![ctx[w]] = "full"] ELSE out
    /\ UNCHANGED <<clicks, req, ps, sigVars, current_process, current_file_index, events,
                   skipResetPending, finishedPending, guiVars, workerVars,
                   orig, settings, preview, command, scanVars, outcome>>

\* ======================= scan: scan_single_file =======================

\* the descriptor a scan starts from: {'valid': True, 'fps': None,
\* 'duration': 0} (fps 0 stands for None, audio_tracks -1 for no such key)
NewDescriptor == [valid |-> TRUE, fps |-> 0, duration |-> 0, audio_tracks |-> -1]

\* subprocess.run(..., check=True, timeout=...) of the frame-rate query raises
\* on a timeout and on a non-zero exit code
FpsProbeRaises(a) == a.k \in {"fail", "timeout"}

\* `num, den = map(int, fps_fraction.split('/'))' raises ValueError for a
\* text that has a slash and is no fraction of integers
FpsParseRaises(a) == a.k = "slash_text"

\* the frame rate parsed from `num/den': none for "0/0" and for den = 0; a
\* bare number float() accepts is taken as it is; none for any other text
ParsedFps(a) ==
    IF a.k = "frac" /\ a.den # 0 THEN a.num \div a.den
    ELSE IF a.k = "number" THEN a.num
    ELSE 0

\* subprocess.run(..., timeout=...) of the duration query raises on a timeout
\* only; a non-zero exit code leaves the duration at 0
DurationProbeRaises(a) == a.k = "timeout"
ParsedDuration(a) == IF a.k = "ok" THEN a.secs ELSE 0

\* scan_single_file: the frame-rate query, then the duration query, then
\* (`if self.include_audio:') the audio query, each storing its value as soon
\* as it has it; an exception ends the function, marking the file invalid
\* when validation is enabled and keeping what was stored.  (The audio query
\* catches its own exceptions.)
ScanSingleFile(p) ==
    LET a == probe[p]
        afterFps == [NewDescriptor EXCEPT !.fps = ParsedFps(a.fps)]
        afterDuration == [afterFps EXCEPT !.duration = ParsedDuration(a.dur)]
        afterAudio == [afterDuration EXCEPT !.audio_tracks =
                          IF settings.include_audio THEN a.audio ELSE @]
        failed(d) == [d EXCEPT !.valid = ~validate_files]
    IN  IF FpsProbeRaises(a.fps) \/ FpsParseRaises(a.fps)
        THEN failed(NewDescriptor)
        ELSE IF DurationProbeRaises(a.dur) THEN failed(afterFps)
        ELSE afterAudio

\* ======================= scan: scan_files_worker =======================

Positions == DOMAIN scan_files

\* faulty variant of StoreResult: a descriptor is stored under the path at
\* the position of its arrival
StoreResult_byArrival(r, p, d) ==
    LET q == scan_files[Min(Cardinality(DOMAIN r) + 1, Len(scan_files))]
    IN  [x \in DOMAIN r \cup {q} |-> IF x = q THEN d ELSE r[x]]

\* faulty variant of StoreResult: the descriptor of a failed probe is dropped
StoreResult_validOnly(r, p, d) ==
    IF d.valid THEN [x \in DOMAIN r \cup {p} |-> IF x = p THEN d ELSE r[x]] ELSE r

\* results[file_path] = result
StoreResult(r, p, d) == [x \in DOMAIN r \cup {p} |-> IF x = p THEN d ELSE r[x]]

scanInputs == <<scan_files, probe, validate_files, max_workers>>

\* the list positions whose result the scan worker has stored
Handled == {collected[k] : k \in DOMAIN collected}

\* `if completed_count % 5 == 0 or completed_count == total_files:' puts a
\* SCAN_PROGRESS with the count
ScanBatch == 5
\* 'percent': (completed_count / total_files) * 100, in whole percents
ScanEv(t, c) ==
    [type |-> t, current |-> c,
     percent |-> IF scan_files = <<>> THEN 0 ELSE (c * 100) \div Len(scan_files)]
ProgressDue(c) == c % ScanBatch = 0 \/ c = Len(scan_files)
ProgressEvents(c) == IF ProgressDue(c) THEN <<ScanEv("SCAN_PROGRESS", c)>> ELSE <<>>

\* faulty variant of ScanCancelEvents: the cancel branch also reports the end
\* of the scan
ScanCancelEvents_alsoComplete == <<ScanEv("SCAN_COMPLETE", 0)>>

\* the events put where a loop of the scan sees cancel_event set: none
ScanCancelEvents == <<>>

\* faulty variant of CancelPending: no future is cancelled before `break'
CancelPending_none(fut) == fut

\* `for f in future_to_file: if not f.done(): f.cancel()': a future that has
\* not started is cancelled, one that runs cannot be
CancelPending(fut) ==
    [j \in DOMAIN fut |-> IF fut[j] = "pending" THEN "cancelled" ELSE fut[j]]

\* faulty variant of RemainingFiles: the fallback scans nothing
RemainingFiles_none(r) == {}

\* remaining_files = [f for f in files if f not in results], as the list
\* positions of these files (scanned in list order)
RemainingFiles(r) == {i \in Positions : scan_files[i] \notin DOMAIN r}

\* the scan worker sees cancel_event set: what had been probed, what was in
\* flight
SeenCancel ==
    /\ scan_cancelled' = TRUE
    /\ scan_hist' = [scan_hist EXCEPT
                        !.probed = {j \in Positions : future[j] = "done"} \cup Handled,
                        !.inflight = {j \in Positions : future[j] = "running"}]

\* `except Exception as e:' of the pool block is entered with the results
\* collected so far; the `with' block has been left, which waits for every
\* task submitted and not cancelled
PoolFailed ==
    /\ remaining_files' = RemainingFiles(results)
    /\ scan_hist' = [scan_hist EXCEPT !.failed = TRUE, !.kept = results,
                                      !.at = Len(collected)]
    /\ scan_pc' = IF RemainingFiles(results) = {} THEN "shutdown" ELSE "fallback"

\* executor.submit(self.scan_single_file, file_path) for every file of the list
S_submit ==
    /\ scan_pc = "submit"
    /\ future' = [i \in Positions |-> "pending"]
    /\ scan_pc' = "pool"
    /\ UNCHANGED <<jobVars, cancel_event, scanInputs, collected, results,
                   scan_msg, scan_cancelled, remaining_files, scan_events,
                   scan_hist>>

\* the pool fails at its start (submit raises after n files): the `with'
\* block is left, which waits for the submitted tasks, and `except Exception'
\* falls back to scanning sequentially the files that are not in results
S_submit_fails ==
    /\ scan_pc = "submit"
    /\ \E n \in 0..(Len(scan_files) - 1) :
          future' = [i \in Positions |-> IF i <= n THEN "done" ELSE "none"]
    /\ PoolFailed
    /\ UNCHANGED <<jobVars, cancel_event, scanInputs, collected, results,
                   scan_msg, scan_cancelled, scan_events>>

\* an exception escapes the as_completed loop of the pool block
S_pool_fails ==
    /\ scan_pc = "pool"
    /\ PoolFailed
    /\ UNCHANGED <<jobVars, cancel_event, scanInputs, future, collected,
                   results, scan_msg, scan_cancelled, scan_events>>

\* a pool thread takes the next task of the work queue (tasks start in the
\* order of submission, at most max_workers run at once)
P_start(i) ==
    /\ i \in Positions
    /\ future[i] = "pending"
    /\ \A j \in Positions : j < i => future[j] # "pending"
    /\ Cardinality({j \in Positions : future[j] = "running"}) < max_workers
    /\ future' = [future EXCEPT ![i] = "running"]
    /\ UNCHANGED <<jobVars, cancel_event, scanInputs, collected, results,
                   scan_pc, scan_msg, scan_cancelled, remaining_files,
                   scan_events, scan_hist>>

\* scan_single_file returns in a pool thread: the future is done
P_finish(i) ==
    /\ i \in Positions
    /\ future[i] = "running"
    /\ future' = [future EXCEPT ![i] = "done"]
    /\ UNCHANGED <<jobVars, cancel_event, scanInputs, collected, results,
                   scan_pc, scan_msg, scan_cancelled, remaining_files,
                   scan_events, scan_hist>>

\* the as_completed loop is over once every future has been yielded
LoopOver(c) == {c[k] : k \in DOMAIN c} = Positions

\* one iteration of `for future in as_completed(future_to_file)': the cancel
\* check (cancelling what has not started, then break), else the result of
\* the future is stored under its path and the progress is reported
S_collect(i) ==
    /\ scan_pc = "pool"
    /\ i \in Positions
    /\ future[i] = "done" /\ i \notin Handled
    /\ IF cancel_event
       THEN /\ future' = CancelPending(future)
            /\ SeenCancel
            /\ scan_events' = scan_events \o ScanCancelEvents
            /\ scan_pc' = "shutdown"
            /\ UNCHANGED <<collected, results>>
       ELSE /\ results' = StoreResult(results, scan_files[i], ScanSingleFile(scan_files[i]))
            /\ collected' = Append(collected, i)
            /\ scan_events' = scan_events \o ProgressEvents(Len(collected) + 1)
            /\ scan_pc' = IF LoopOver(Append(collected, i)) THEN "shutdown" ELSE "pool"
            /\ UNCHANGED <<future, scan_cancelled, scan_hist>>
    /\ UNCHANGED <<jobVars, cancel_event, scanInputs, scan_msg, remaining_files>>

\* the tasks of the pool have all ended: the `with' block can be left
PoolQuiet == \A j \in Positions : future[j] \notin {"pending", "running"}

\* one iteration of the sequential fallback, in list order (remaining_files
\* holds what the loop has still to visit): the cancel check (break), else
\* scan_single_file is called, its result stored and the progress reported
\* with completed_count = len(results)
S_fallback ==
    /\ scan_pc = "fallback"
    /\ PoolQuiet
    /\ remaining_files # {}
    /\ LET i == CHOOSE x \in remaining_files : \A y \in remaining_files : x <= y
           r == StoreResult(results, scan_files[i], ScanSingleFile(scan_files[i]))
       IN  IF cancel_event
           THEN /\ SeenCancel
                /\ scan_events' = scan_events \o ScanCancelEvents
                /\ scan_pc' = "shutdown"
                /\ UNCHANGED <<collected, results, remaining_files>>
           ELSE /\ results' = r
                /\ collected' = Append(collected, i)
                /\ remaining_files' = remaining_files \ {i}
                /\ scan_events' = scan_events \o ProgressEvents(Cardinality(DOMAIN r))
                /\ scan_pc' = IF remaining_files = {i} THEN "shutdown" ELSE "fallback"
                /\ UNCHANGED <<scan_cancelled, scan_hist>>
    /\ UNCHANGED <<jobVars, cancel_event, scanInputs, future, scan_msg>>

\* the executor has shut down (its tasks have returned); the summaries are
\* logged and SCAN_COMPLETE is put with the results
S_complete ==
    /\ scan_pc = "shutdown"
    /\ PoolQuiet
    /\ scan_msg' = [sent |-> TRUE, results |-> results]
    /\ scan_events' = Append(scan_events, ScanEv("SCAN_COMPLETE", 0))
    /\ scan_pc' = "done"
    /\ UNCHANGED <<jobVars, cancel_event, scanInputs, future, collected,
                   results, scan_cancelled, remaining_files, scan_hist>>

\* closeEvent answered Yes while a job runs beside the scan: cancel_event.set()
closeEvent ==
    /\ scan_pc \in {"submit", "pool", "fallback"}
    /\ ~cancel_event
    /\ cancel_event' = TRUE
    /\ UNCHANGED <<jobVars, scanVars>>

\* ======================= specifications =======================

Gui ==
    \/ start_remuxing_process \/ toggle_pause
    \/ skip_current_file \/ skip_current_file_set
    \/ cancel_processing \/ cancel_processing_no \/ cancel_processing_yes
    \/ cancel_processing_terminate \/ cancel_processing_reset
    \/ check_queue_skip_reset \/ check_queue_finished \/ close_completion_dialog

\* one job: the application from a completed scan to the end of its job
Next ==
    \/ Gui
    \/ \E w \in Workers : Worker(w) \/ P_write(w) \/ P_exit(w)

Spec == Init /\ [][Next]_vars

\* the application across jobs: files are dropped and scanned again while or
\* after a job runs, and the next job is started.  The inputs are one
\* representative job (one file, valid, no output present).
InitApp ==
    /\ InitState
    /\ out = [f \in Files |-> "none"]
    /\ settings = [total |-> 1,
                   valid |-> [f \in Files |-> TRUE],
                   overwrite_existing |-> FALSE,
                   file_action |-> FILE_ACTION_KEEP,
                   name |-> [f \in Files |-> f],
                   preserve_timestamps |-> FALSE,
                   include_audio |-> TRUE,
                   use_timescale |-> FALSE,
                   output_dir |-> "",
                   output_format |-> ".mp4",
                   fps |-> [f \in Files |-> "30.0"]]

NextApp ==
    \/ Gui
    \/ dropEvent \/ check_queue_scan_complete
    \/ \E w \in Workers : Worker(w) \/ P_write(w) \/ P_exit(w)

SpecApp == InitApp /\ [][NextApp]_vars

\* the application under scheduling: a worker thread keeps running while it
\* has a step to take, and a GUI handler that has entered its critical section
\* or passed its dialog runs to its end.  The user is not obliged to do
\* anything.
Fairness ==
    /\ \A w \in Workers : WF_vars(Worker(w))
    /\ WF_vars(skip_current_file_set)
    /\ WF_vars(cancel_processing_terminate)
    /\ WF_vars(cancel_processing_reset)

FairApp == InitApp /\ [][NextApp]_vars /\ Fairness

\* one job over files picked from one or from several directories (two files
\* of different directories can have the same base name), with the
\* disposition and the timestamp option varied; all files valid, no output
\* present, overwrite off
InitDisposition ==
    /\ InitState
    /\ out = [f \in Files |-> "none"]
    /\ settings \in [total : {NumFiles},
                     valid : {[f \in Files |-> TRUE]},
                     overwrite_existing : {FALSE},
                     file_action : {FILE_ACTION_MOVE, FILE_ACTION_KEEP, FILE_ACTION_DELETE},
                     name : {n \in [Files -> Files] : \A f \in Files : n[f] \in {1, f}},
                     preserve_timestamps : BOOLEAN,
                     include_audio : {TRUE},
                     use_timescale : {FALSE},
                     output_dir : {""},
                     output_format : {".mp4"},
                     fps : {[f \in Files |-> "30.0"]}]

SpecDisposition == InitDisposition /\ [][Next]_vars

\* one job over valid files with no output present, the audio and timescale
\* options and the frame rate of each descriptor varied
InitCommand ==
    /\ InitState
    /\ out = [f \in Files |-> "none"]
    /\ settings \in [total : {NumFiles},
                     valid : {[f \in Files |-> TRUE]},
                     overwrite_existing : {FALSE},
                     file_action : {FILE_ACTION_KEEP},
                     name : {[f \in Files |-> f]},
                     preserve_timestamps : {FALSE},
                     include_audio : BOOLEAN,
                     use_timescale : BOOLEAN,
                     output_dir : {""},
                     output_format : {".mp4"},
                     fps : [Files -> FpsTexts]]

SpecCommand == InitCommand /\ [][Next]_vars

\* ---- the preview of the commands and the commands of the job ----
\* generate_preview_commands, called by show_preview_dialog once the files
\* are scanned: one command per file of the list
generate_preview_commands ==
    /\ uiPhase = "scanned"
    /\ preview' = [f \in JobFiles |-> PreviewCommand(f)]
    /\ UNCHANGED <<sigVars, current_process, current_file_index, events,
                   skipResetPending, finishedPending, guiVars, workerVars,
                   proc, diskVars, settings, command, scanVars, histVars, clicks>>

\* build_ffmpeg_command(video_file_path, settings) called for file f by
\* job w, once per job
build_ffmpeg_command(w, f) ==
    /\ f \in JobFiles
    /\ command[w] = <<>>
    /\ command' = [command EXCEPT ![w] = BuildCommand(f)]
    /\ ctx' = [ctx EXCEPT ![w] = f]
    /\ Put(w, TimescaleWarnings(w, f, settings.use_timescale, settings.fps[f]))
    /\ UNCHANGED <<sigVars, current_process, current_file_index,
                   skipResetPending, finishedPending, guiVars, pc,
                   remuxed_count, skipped_count, res, observed, proc,
                   diskVars, settings, preview, scanVars, histVars, clicks>>

\* the files are scanned and the options set: the audio, timescale, output
\* directory and output format options and the frame rate of each descriptor
\* varied, files of one or of several base names
InitPreview ==
    /\ InitState
    /\ out = [f \in Files |-> "none"]
    /\ settings \in [total : {NumFiles},
                     valid : {[f \in Files |-> TRUE]},
                     overwrite_existing : {FALSE},
                     file_action : {FILE_ACTION_KEEP},
                     name : {n \in [Files -> Files] : \A f \in Files : n[f] \in {1, f}},
                     preserve_timestamps : {FALSE},
                     include_audio : BOOLEAN,
                     use_timescale : BOOLEAN,
                     output_dir : {"", "outdir"},
                     output_format : {".mp4", ".mkv"},
                     fps : [Files -> FpsTexts]]

NextPreview ==
    \/ generate_preview_commands
    \/ \E w \in Workers, f \in Files : build_ffmpeg_command(w, f)

SpecPreview == InitPreview /\ [][NextPreview]_vars

\* a scan: start_scan_thread has cleared cancel_event and started
\* scan_files_worker on a non-empty list of paths (a path can be listed
\* twice); the probe answers, the validation option and the pool size are the
\* inputs
InitScan ==
    /\ InitEngine
    /\ btn_cancel = FALSE
    /\ uiPhase = "scanning"
    /\ out = [f \in Files |-> "none"]
    /\ settings = [total |-> NumFiles,
                   valid |-> [f \in Files |-> TRUE],
                   overwrite_existing |-> FALSE,
                   file_action |-> FILE_ACTION_KEEP,
                   name |-> [f \in Files |-> f],
                   preserve_timestamps |-> FALSE,
                   include_audio |-> TRUE,
                   use_timescale |-> FALSE,
                   output_dir |-> "",
                   output_format |-> ".mp4",
                   fps |-> [f \in Files |-> "30.0"]]
    /\ scan_files \in UNION {[1..n -> Paths] : n \in 1..MaxScan}
    /\ probe \in [Paths -> [fps : FpsAnswers, dur : DurationAnswers, audio : {2}]]
    /\ validate_files \in BOOLEAN
    /\ max_workers \in (IF Len(scan_files) > 1 THEN 1..MaxPool ELSE {1})
    /\ future = [i \in DOMAIN scan_files |-> "none"]
    /\ collected = <<>>
    /\ results = <<>>
    /\ scan_pc = "submit"
    /\ scan_msg = [sent |-> FALSE, results |-> <<>>]
    /\ scan_cancelled = FALSE
    /\ remaining_files = {}
    /\ scan_events = <<>>
    /\ scan_hist = NoScanHist

\* a scan of one path (listed up to MaxScan times) for which ffprobe gives
\* any of the answers, with the validation and the audio option varied
InitProbe ==
    /\ InitEngine
    /\ btn_cancel = FALSE
    /\ uiPhase = "scanning"
    /\ out = [f \in Files |-> "none"]
    /\ settings \in [total : {NumFiles},
                     valid : {[f \in Files |-> TRUE]},
                     overwrite_existing : {FALSE},
                     file_action : {FILE_ACTION_KEEP},
                     name : {[f \in Files |-> f]},
                     preserve_timestamps : {FALSE},
                     include_audio : BOOLEAN,
                     use_timescale : {FALSE},
                     output_dir : {""},
                     output_format : {".mp4"},
                     fps : {[f \in Files |-> "30.0"]}]
    /\ scan_files \in {[i \in 1..n |-> 1] : n \in 1..MaxScan}
    /\ probe \in {[p \in Paths |->
                      IF p = 1 THEN a
                      ELSE [fps |-> QuietProbe, dur |-> QuietDuration, audio |-> 2]] :
                  a \in [fps : FpsAnswersAll, dur : DurationAnswers,
                         audio : AudioAnswers]}
    /\ validate_files \in BOOLEAN
    /\ max_workers \in (IF Len(scan_files) > 1 THEN 1..MaxPool ELSE {1})
    /\ future = [i \in DOMAIN scan_files |-> "none"]
    /\ collected = <<>>
    /\ results = <<>>
    /\ scan_pc = "submit"
    /\ scan_msg = [sent |-> FALSE, results |-> <<>>]
    /\ scan_cancelled = FALSE
    /\ remaining_files = {}
    /\ scan_events = <<>>
    /\ scan_hist = NoScanHist

\* a scan of a longer list whose probes all succeed: MaxBatch - 1 or MaxBatch
\* paths, all different or the last the same as the first
InitBatch ==
    /\ InitEngine
    /\ btn_cancel = FALSE
    /\ uiPhase = "scanning"
    /\ out = [f \in Files |-> "none"]
    /\ settings = [total |-> NumFiles,
                   valid |-> [f \in Files |-> TRUE],
                   overwrite_existing |-> FALSE,
                   file_action |-> FILE_ACTION_KEEP,
                   name |-> [f \in Files |-> f],
                   preserve_timestamps |-> FALSE,
                   include_audio |-> TRUE,
                   use_timescale |-> FALSE,
                   output_dir |-> "",
                   output_format |-> ".mp4",
                   fps |-> [f \in Files |-> "30.0"]]
    /\ scan_files \in UNION {{[i \in 1..n |-> i],
                              [i \in 1..n |-> IF i = n THEN 1 ELSE i]} :
                             n \in (MaxBatch - 1)..MaxBatch}
    /\ probe = [p \in 1..MaxBatch |->
                  [fps |-> QuietProbe, dur |-> QuietDuration, audio |-> 2]]
    /\ validate_files = TRUE
    /\ max_workers \in 1..MaxPool
    /\ future = [i \in DOMAIN scan_files |-> "none"]
    /\ collected = <<>>
    /\ results = <<>>
    /\ scan_pc = "submit"
    /\ scan_msg = [sent |-> FALSE, results |-> <<>>]
    /\ scan_cancelled = FALSE
    /\ remaining_files = {}
    /\ scan_events = <<>>
    /\ scan_hist = NoScanHist

\* the list positions of any scan
ScanPositions == 1..(IF MaxBatch > MaxScan THEN MaxBatch ELSE MaxScan)

NextScan ==
    \/ S_submit \/ S_submit_fails \/ S_pool_fails
    \/ \E i \in ScanPositions : P_start(i) \/ P_finish(i) \/ S_collect(i)
    \/ S_fallback \/ S_complete
    \/ closeEvent

SpecScan == InitScan /\ [][NextScan]_vars

SpecProbe == InitProbe /\ [][NextScan]_vars

SpecBatch == InitBatch /\ [][NextScan]_vars

\* ======================= properties =======================

\* the positions of the FINISHED events among the events a job has put
FinishedEvents(w) == {i \in DOMAIN events[w] : events[w][i].type = "FINISHED"}

\* C1: every job whose worker never observed a cancellation reports, in its
\* FINISHED event, remuxed and skipped counts that add up to the number of
\* files of the job.
C1_CountsAddUp ==
    \A w \in Workers : ~observed[w] =>
        \A i \in FinishedEvents(w) :
            events[w][i].n + events[w][i].m = Total

\* C7: in the events of one job the CURRENT_FILE and PROGRESS events are in
\* file order: none of them emitted for a file follows one emitted for a later
\* position.  (PROGRESS carries the number of files left behind, so it belongs
\* to the file at that index; the closing pair, PROGRESS n/n and CURRENT_FILE
\* 'Processing Complete', belongs to the position after the last file.)
IsFileEvent(e) == e.type \in {"CURRENT_FILE", "PROGRESS"}
FileOf(e) == IF e.type = "CURRENT_FILE" THEN e.file ELSE e.n + 1
C7_FileOrder ==
    \A w \in Workers : \A i, j \in DOMAIN events[w] :
        (i < j /\ IsFileEvent(events[w][i]) /\ IsFileEvent(events[w][j]))
            => FileOf(events[w][i]) <= FileOf(events[w][j])

\* C9: a job has put exactly one FINISHED event once its worker has ended and
\* none before, and the event carries the worker's counters; this on the path
\* through the end of the list and on the paths through an observed
\* cancellation.
C9_ExactlyOneFinished ==
    \A w \in Workers :
        /\ Cardinality(FinishedEvents(w)) = IF pc[w] = "done" THEN 1 ELSE 0
        /\ \A i \in FinishedEvents(w) :
               /\ events[w][i].n = remuxed_count[w]
               /\ events[w][i].m = skipped_count[w]

\* a job ended by a cancellation observed inside the monitor of its second
\* file, after its first file was remuxed
C9_Witness ==
    /\ pc[1] = "done" /\ observed[1]
    /\ outcome[1][1] = "completed"
    /\ outcome[1][2] = "cancelled"
    /\ Cardinality(FinishedEvents(1)) = 1

\* a worker thread that has been started and has not returned
WorkerRunning(w) == pc[w] \notin {"unborn", "done"}

\* C2: once cancel_event is set while the worker of a job runs, the flag stays
\* set for as long as that worker runs and the worker spawns no further ffmpeg
\* process; and a worker that has observed the cancellation ends with its
\* process terminated and the output of the file it was remuxing deleted.
C2_CancelSticky ==
    [][\A w \in Workers :
          /\ (cancel_event /\ WorkerRunning(w)) =>
                /\ (WorkerRunning(w)' => cancel_event')
                /\ (proc'[w] = "running" => proc[w] = "running")
          /\ (pc'[w] = "done" /\ observed'[w]) =>
                /\ proc'[w] # "running"
                /\ \A f \in Files : outcome'[w][f] = "cancelled" => out'[f] = "none"
      ]_vars

\* C3: once a job that observed a cancellation has finished, every output
\* file this job wrote (partly or wholly) belongs to a file the job had
\* completed; none remains for a file that was running, failed, was skipped or
\* was not started.
C3_NoPartialOutput ==
    \A w \in Workers : (pc[w] = "done" /\ observed[w]) =>
        \A f \in Files :
            out[f] \in {"partial", "full"} => outcome[w][f] = "completed"

\* C4: when exactly one skip request, and no other request, was issued while
\* the ffmpeg process of file i ran, then at the end of the job file i is
\* classified as skipped mid-run (which counts it as skipped once), its output
\* is gone, the process is dead and its handle released, and the file after i
\* was attempted, not skipped.
C4_MidRunSkip ==
    \A i \in Files : (req = i /\ gui = "idle" /\ pc[1] = "done") =>
        /\ outcome[1][i] = "skipped_midrun"
        /\ out[i] = "none"
        /\ current_process = 0 /\ proc[1] # "running"
        /\ (i < Total => outcome[1][i + 1] \notin
                           {"skipped_prestart", "skipped_paused", "pending"})

\* C5: while the worker stays paused at the pre-start checkpoint, with no skip
\* pending when it got there and the skip requests issued since all served,
\* the index and the skipped counter have advanced by the number of those
\* requests, no process was started, and the CURRENT_FILE and PROGRESS events
\* put since are those of the skipped files in file order.
C5_SkipWhilePaused ==
    \A w \in Workers :
        (/\ pc[w] \in {"pl_while", "pl_cancel", "pl_skip"}
         /\ ps[w].ok /\ ~skip_event /\ gui = "idle"
         /\ ps[w].idx + ps[w].n <= Total) =>
            /\ current_file_index = ps[w].idx + ps[w].n
            /\ skipped_count[w] = ps[w].sk + ps[w].n
            /\ proc[w] = "none"
            /\ LET evs == SelectSeq(events[w], IsFileEvent)
                   k == Len(evs) - 2 * ps[w].n
               IN  /\ k >= 0
                   /\ \A x \in 1..ps[w].n :
                        /\ evs[k + 2 * x - 1] = ProgressEv(w, ps[w].idx + x)
                        /\ evs[k + 2 * x] = CurrentFileEv(w, ps[w].idx + x + 1)

\* C6: at most one ffmpeg process spawned by the job engine is alive
C6_OneLiveProcess ==
    Cardinality({w \in Workers : proc[w] = "running"}) <= 1

\* C8: once a job has put its FINISHED event, that event is the last event
\* of the job in process_queue: its worker puts nothing after it, and no
\* handler of the GUI thread puts an event behind it.
C8_FinishedLast ==
    \A w \in Workers : FinishedPut(w) =>
        /\ events[w][Len(events[w])].type = "FINISHED"
        /\ (w = jobs => lateEvents = 0)

\* the worker is blocked by a pause: in the pause loop before the start of a
\* file, or in the spin-wait of the subprocess monitor
PausedAtCheckpoint(w) == pc[w] \in {"pl_while", "pl_cancel", "pl_skip", "mp_wait"}

\* C10: under fair scheduling of the worker, from a state where the job is
\* blocked by a pause and a cancellation has been requested, the job reaches
\* FINISHED; and from a state where it is blocked by a pause on file f and a
\* skip has been requested, file f gets classified as skipped and the index
\* moves past it, unless the job is resumed or cancelled first.
C10_ServedWhilePaused ==
    /\ (cancel_event /\ ~pause_event /\ PausedAtCheckpoint(1)) ~> FinishedPut(1)
    /\ \A f \in Files :
          (skip_event /\ ~pause_event /\ PausedAtCheckpoint(1) /\ ctx[1] = f)
             ~> \/ /\ outcome[1][f] \in {"skipped_paused", "skipped_midrun"}
                   /\ current_file_index >= f
                \/ pause_event \/ cancel_event

\* the positions of the events of job w that log `what' for file f
Logged(w, f, what) ==
    {i \in DOMAIN events[w] :
        events[w][i].type = "LOG" /\ events[w][i].file = f /\ events[w][i].what = what}

\* worker w takes a step from position l
StepFrom(w, l) == pc[w] = l /\ pc'[w] # l

\* C11: with overwrite off and the output of every file of the list present
\* from an earlier run, no step of a job changes an output file or leaves an
\* ffmpeg process running, and a job that ran without a request of the user
\* ends with every file of a valid descriptor classified as skipped because
\* its output exists, none remuxed.
C11_RerunIdempotent ==
    [][(/\ ~settings.overwrite_existing
        /\ \A f \in JobFiles : out[f] = "pre") =>
           /\ out' = out
           /\ \A w \in Workers : proc'[w] = "none"
           /\ \A w \in Workers : (pc'[w] = "done" /\ clicks' = 0) =>
                 /\ \A f \in JobFiles :
                        settings.valid[f] => outcome'[w][f] = "exists"
                 /\ \A i \in DOMAIN events'[w] :
                        events'[w][i].type = "FINISHED" =>
                            /\ events'[w][i].n = 0
                            /\ events'[w][i].m = Total
      ]_vars

\* a finished re-run over two valid files whose outputs both exist
C11_Witness ==
    /\ pc[1] = "done" /\ clicks = 0
    /\ ~settings.overwrite_existing
    /\ \A f \in JobFiles : settings.valid[f] /\ out[f] = "pre"
    /\ \A f \in JobFiles : outcome[1][f] = "exists"
    /\ \E i \in FinishedEvents(1) : events[1][i].n = 0 /\ events[1][i].m = Total

\* C12: a job that ran without a request of the user and in which the ffmpeg
\* process of every file of a valid descriptor was started and exited with
\* code 0 (its output is complete) reports remuxed = the number of files of a
\* valid descriptor and skipped = the number of files of an invalid one.
C12_QuietJobCounts ==
    \A w \in Workers :
        (/\ pc[w] = "done" /\ clicks = 0
         /\ \A f \in JobFiles : settings.valid[f] => out[f] = "full") =>
            \A i \in FinishedEvents(w) :
                /\ events[w][i].n = Cardinality({f \in JobFiles : settings.valid[f]})
                /\ events[w][i].m = Cardinality({f \in JobFiles : ~settings.valid[f]})

\* a quiet job over one valid and one invalid file: FINISHED{1, 1}
C12_Witness ==
    /\ pc[1] = "done" /\ clicks = 0
    /\ settings.valid[1] /\ ~settings.valid[2]
    /\ out[1] = "full"
    /\ \E i \in FinishedEvents(1) : events[1][i].n = 1 /\ events[1][i].m = 1

\* C13: a file that ends with a mux error (non-zero exit code or failed
\* spawn), an invalid descriptor or an existing output is counted in skipped,
\* the index moves to the next file and the loop goes on: with the index
\* inside the list and no cancellation the next file is announced and taken
\* up; and the loop is left with the index inside the list only by a worker
\* that has observed a cancellation.
C13_FailuresDoNotAbort ==
    [][\A w \in Workers :
          /\ ((StepFrom(w, "result") /\ res[w] \in {"error", "skipped"})
               \/ (StepFrom(w, "ps_valid") /\ ~settings.valid[ctx[w]])) =>
                 /\ skipped_count'[w] = skipped_count[w] + 1
                 /\ remuxed_count'[w] = remuxed_count[w]
                 /\ current_file_index' = current_file_index + 1
                 /\ pc'[w] = "loop"
          /\ (StepFrom(w, "loop") /\ current_file_index < Total /\ ~cancel_event) =>
                 /\ pc'[w] = "chk_pause"
                 /\ ctx'[w] = current_file_index + 1
          /\ (pc[w] # "finish" /\ pc'[w] = "finish" /\ current_file_index' < Total) =>
                 observed'[w]
      ]_vars

\* file 1 failed, file 2 was then remuxed, and the quiet job finished with
\* both counted
C13_Witness ==
    /\ pc[1] = "done" /\ clicks = 0
    /\ outcome[1][1] = "error" /\ outcome[1][2] = "completed"
    /\ skipped_count[1] = 1 /\ remuxed_count[1] = 1

\* C14: no ffmpeg process exists for a file of an invalid descriptor under
\* any interleaving of requests: the worker reaching the validity check with
\* such a file classifies it as skipped (invalid), counts it, advances the
\* index by one and starts nothing, and such a file never gets a
\* classification that needs a process.
C14_InvalidNeverStarted ==
    [][\A w \in Workers :
          /\ proc'[w] # "none" => settings.valid[ctx'[w]]
          /\ \A f \in Files : ~settings.valid[f] =>
                 outcome'[w][f] \in {"pending", "invalid", "skipped_prestart",
                                     "skipped_paused"}
          /\ (StepFrom(w, "ps_valid") /\ ~settings.valid[ctx[w]]) =>
                 /\ outcome'[w][ctx[w]] = "invalid"
                 /\ skipped_count'[w] = skipped_count[w] + 1
                 /\ current_file_index' = current_file_index + 1
                 /\ proc' = proc
      ]_vars

\* an invalid first file was skipped while requests were being served, and
\* the valid second file was remuxed
C14_Witness ==
    /\ pc[1] = "done" /\ clicks > 0
    /\ ~settings.valid[1] /\ settings.valid[2]
    /\ outcome[1][1] = "invalid" /\ outcome[1][2] = "completed"

\* C15: the worker reaching the pre-check of a file whose output path exists
\* returns "skipped" with overwrite off, starting no process and leaving every
\* output file as it is, and the file is then counted in skipped; with
\* overwrite on it goes on to Popen, and the process runs when Popen succeeds.
C15_ExistingOutput ==
    [][\A w \in Workers :
          /\ (StepFrom(w, "exec") /\ out[ctx[w]] # "none") =>
                 IF settings.overwrite_existing
                 THEN /\ pc'[w] \in {"store", "except"}
                      /\ pc'[w] = "store" => proc'[w] = "running"
                 ELSE /\ proc' = proc
                      /\ out' = out
                      /\ res'[w] = "skipped"
                      /\ pc'[w] = "result"
          /\ (StepFrom(w, "result") /\ res[w] = "skipped") =>
                 /\ skipped_count'[w] = skipped_count[w] + 1
                 /\ remuxed_count'[w] = remuxed_count[w]
                 /\ out' = out
      ]_vars

\* the pre-check has just skipped file 1, whose output exists, with overwrite
\* off
C15_Witness ==
    /\ ~settings.overwrite_existing
    /\ pc[1] = "result" /\ ctx[1] = 1 /\ res[1] = "skipped"
    /\ outcome[1][1] = "exists" /\ out[1] = "pre"

\* worker w takes the step in which the disposition of its file runs under
\* the configured policy: after a successful remux, and under `move' also on a
\* skip
DispositionStep(w) ==
    \/ StepFrom(w, "post_cancel") /\ ~cancel_event /\ proc[w] = "exit0"
    \/ /\ settings.file_action = FILE_ACTION_MOVE
       /\ \/ StepFrom(w, "pl_doskip") \/ StepFrom(w, "ps_doskip")
          \/ StepFrom(w, "result") /\ res[w] = "skipped"

\* C16: a failing disposition or timestamp preservation changes no
\* classification: the file whose process exited with code 0 gets the result
\* "completed" and is counted in remuxed, a skipped file is counted in
\* skipped, and the loop goes on with the next file.
C16_DispositionFailureHarmless ==
    [][\A w \in Workers :
          /\ (StepFrom(w, "post_cancel") /\ ~cancel_event /\ proc[w] = "exit0") =>
                 /\ res'[w] = "completed"
                 /\ outcome'[w][ctx[w]] = "completed"
                 /\ pc'[w] = "result"
          /\ (StepFrom(w, "result") /\ res[w] = "completed") =>
                 /\ remuxed_count'[w] = remuxed_count[w] + 1
                 /\ skipped_count'[w] = skipped_count[w]
                 /\ pc'[w] = "loop"
          /\ (StepFrom(w, "result") /\ res[w] = "skipped") =>
                 /\ skipped_count'[w] = skipped_count[w] + 1
                 /\ remuxed_count'[w] = remuxed_count[w]
                 /\ pc'[w] = "loop"
          /\ (StepFrom(w, "pl_doskip") \/ StepFrom(w, "ps_doskip")) =>
                 /\ skipped_count'[w] = skipped_count[w] + 1
                 /\ remuxed_count'[w] = remuxed_count[w]
                 /\ pc'[w] \in {"loop", "pl_while", "after_pause"}
      ]_vars

\* the disposition of file 2 and the timestamp preservation of a file failed,
\* and the job finished with both files counted in remuxed
C16_Witness ==
    /\ pc[1] = "done"
    /\ Logged(1, 2, "warn_disposition") # {}
    /\ \E f \in JobFiles : Logged(1, f, "warn_timestamps") # {}
    /\ \A f \in JobFiles : outcome[1][f] = "completed"
    /\ \E i \in FinishedEvents(1) : events[1][i].n = Total /\ events[1][i].m = 0

\* C17: under `move', the step in which the disposition of a file runs moves
\* that file into the 'Remuxed' subfolder of its own source directory and
\* touches no other file.
C17_MovedWithinSource ==
    [][\A w \in Workers :
          (settings.file_action = FILE_ACTION_MOVE /\ DispositionStep(w)) =>
              /\ orig'[ctx[w]] = "moved"
              /\ \A g \in Files : g # ctx[w] => orig'[g] = orig[g]
      ]_vars

\* the paths of the scanned list
InputPaths == {scan_files[i] : i \in Positions}

\* C18: the map carried by the SCAN_COMPLETE of a scan that was not
\* cancelled has exactly the paths of the list as its keys (one descriptor
\* for each), whatever the order the probes complete in and whichever probes
\* fail.
C18_OneDescriptorPerPath ==
    (scan_msg.sent /\ ~scan_cancelled) => DOMAIN scan_msg.results = InputPaths

\* a parallel scan of two different paths, the second handled first, the
\* first probe of path 1 timed out
C18_Witness ==
    /\ scan_msg.sent /\ ~scan_cancelled
    /\ max_workers = 2 /\ InputPaths = {1, 2}
    /\ collected = <<2, 1>>
    /\ probe[1].fps.k = "timeout"
    /\ DOMAIN scan_msg.results = {1, 2}
    /\ ~scan_msg.results[1].valid /\ scan_msg.results[2].valid

\* a probe of path p timed out or raised
ProbeFailed(p) == FpsProbeRaises(probe[p].fps) \/ DurationProbeRaises(probe[p].dur)

\* C19: with validation enabled, the descriptor of a path one of whose
\* probes timed out or raised is valid:false with no frame rate and duration
\* 0, and in a scan that was not cancelled every other path of the list has
\* its descriptor.
C19_FailedProbeZeroValues ==
    (scan_msg.sent /\ validate_files) =>
        /\ \A p \in DOMAIN scan_msg.results :
               ProbeFailed(p) =>
                   /\ ~scan_msg.results[p].valid
                   /\ scan_msg.results[p].fps = 0
                   /\ scan_msg.results[p].duration = 0
        /\ ~scan_cancelled => DOMAIN scan_msg.results = InputPaths

\* scan_files_worker with a pool of one thread: the files are scanned one at
\* a time in list order
RECURSIVE SequentialScan(_, _)
SequentialScan(i, r) ==
    IF i > Len(scan_files) THEN r
    ELSE SequentialScan(i + 1, StoreResult(r, scan_files[i], ScanSingleFile(scan_files[i])))

\* C20: the valid, frame-rate and duration values of every path in the map of
\* a scan that was not cancelled are those of scanning the list one file at a
\* time, for every completion order of the pool.
C20_OrderIndependent ==
    (scan_msg.sent /\ ~scan_cancelled) =>
        LET seq == SequentialScan(1, <<>>)
        IN  /\ DOMAIN scan_msg.results = DOMAIN seq
            /\ \A p \in DOMAIN seq :
                   /\ scan_msg.results[p].valid = seq[p].valid
                   /\ scan_msg.results[p].fps = seq[p].fps
                   /\ scan_msg.results[p].duration = seq[p].duration

\* a parallel scan of two paths with different answers whose futures were
\* handled in the reverse of the list order
C20_Witness ==
    /\ scan_msg.sent /\ ~scan_cancelled
    /\ max_workers = 2 /\ scan_files = <<1, 2>>
    /\ collected = <<2, 1>>
    /\ probe[1] # probe[2]
    /\ scan_msg.results[1] # scan_msg.results[2]

ScanCompletes == {i \in DOMAIN scan_events : scan_events[i].type = "SCAN_COMPLETE"}

\* C22: the scan worker has put exactly one SCAN_COMPLETE once it has ended
\* and none before, and the event is the last one it put, every SCAN_PROGRESS
\* before it; this on the paths through the pool, through the sequential
\* fallback and through an observed cancellation.
C22_OneScanComplete ==
    /\ Cardinality(ScanCompletes) = IF scan_pc = "done" THEN 1 ELSE 0
    /\ \A i \in ScanCompletes : i = Len(scan_events)
    /\ scan_msg.sent = (ScanCompletes # {})

\* a scan whose pool failed and whose fallback reported its progress before
\* the SCAN_COMPLETE
C22_Witness ==
    /\ scan_pc = "done" /\ scan_hist.failed /\ ~scan_cancelled
    /\ Len(scan_events) = 2
    /\ scan_events[1].type = "SCAN_PROGRESS"
    /\ scan_events[2].type = "SCAN_COMPLETE"

\* the list positions the sequential fallback has scanned, in order
FallbackScanned == SubSeq(collected, scan_hist.at + 1, Len(collected))

\* C23: after a failure of the pool in a scan that is not cancelled, the
\* fallback scans the files that had no descriptor at the failure, one at a
\* time in list order, and the map of SCAN_COMPLETE has a descriptor for
\* every path of the list, those collected before the failure unchanged.
C23_SequentialFallback ==
    (scan_msg.sent /\ scan_hist.failed /\ ~scan_cancelled) =>
        /\ DOMAIN scan_msg.results = InputPaths
        /\ \A p \in DOMAIN scan_hist.kept : scan_msg.results[p] = scan_hist.kept[p]
        /\ {FallbackScanned[k] : k \in DOMAIN FallbackScanned}
              = {i \in Positions : scan_files[i] \notin DOMAIN scan_hist.kept}
        /\ \A k \in DOMAIN FallbackScanned :
               k > 1 => FallbackScanned[k - 1] < FallbackScanned[k]

\* the pool failed after the descriptor of path 2 was collected; the fallback
\* scanned the two listings of path 1, whose probe fails
C23_Witness ==
    /\ scan_msg.sent /\ scan_hist.failed /\ ~scan_cancelled
    /\ scan_files = <<1, 2, 1>>
    /\ scan_hist.at = 1 /\ DOMAIN scan_hist.kept = {2}
    /\ collected = <<2, 1, 3>>
    /\ ~scan_msg.results[1].valid /\ scan_msg.results[2].valid

\* C24: when the worker thread of a job is started after the job before it
\* has ended, the three control signals are in their reset state (not paused,
\* no cancel requested, no skip requested), whatever was requested during or
\* at the end of the job before.
C24_SignalsResetAtStart ==
    [][\A w \in Workers :
          (/\ pc[w] = "unborn" /\ pc'[w] = "start"
           /\ \A v \in Workers : pc[v] \in {"unborn", "done"}) =>
              pause_event' /\ ~cancel_event' /\ ~skip_event'
      ]_vars

\* C25: while one thread is inside the critical section of process_lock (the
\* GUI thread between the two parts of skip_current_file, the only holder
\* that keeps the lock across steps), no other thread assigns, clears or
\* terminates through current_process: the reference is unchanged and the
\* worker's assignment and clearing wait for the lock.
C25_HandleUnderLock ==
    [][(gui = "skip_set" /\ gui' = "skip_set") =>
          /\ current_process' = current_process
          /\ \A w \in Workers :
                pc[w] \in {"store", "except", "mon_skiprel", "mon_cancelrel", "post"}
                    => pc'[w] = pc[w]
      ]_vars

\* the worker has spawned the process of file 1 and waits for the lock to
\* assign the handle, while the GUI thread holds the lock in skip_current_file
C25_Witness ==
    /\ gui = "skip_set"
    /\ pc[1] = "store" /\ proc[1] = "running"
    /\ current_process = 0

\* the LOG events of job w that name file f and tell its outcome
OutcomeLogKinds ==
    {"failed", "debug_error", "debug_completed", "debug_skipped", "exists",
     "skip_midrun", "invalid", "skip_prestart", "skip_paused"}
OutcomeLogs(w, f) ==
    {i \in DOMAIN events[w] :
        /\ events[w][i].type = "LOG" /\ events[w][i].file = f
        /\ events[w][i].what \in OutcomeLogKinds}

\* C26: at the end of a job that ran without a request of the user, every
\* classified file (completed, mux error, invalid descriptor, output exists)
\* has exactly one LOG event that names it and tells its outcome.
C26_OneLogPerOutcome ==
    \A w \in Workers : (pc[w] = "done" /\ clicks = 0) =>
        \A f \in JobFiles :
            outcome[w][f] \in {"completed", "error", "invalid", "exists"} =>
                Cardinality(OutcomeLogs(w, f)) = 1

\* worker w takes a step that classifies its file and moves to the next
AdvanceStep(w) ==
    \/ StepFrom(w, "result") /\ res[w] # "cancelled"
    \/ StepFrom(w, "ps_doskip") \/ StepFrom(w, "pl_doskip")
    \/ StepFrom(w, "ps_valid") /\ ~settings.valid[ctx[w]]

\* C28: while the worker of a job runs (its index initialised), the current
\* index never decreases and never exceeds the number of files; the step
\* that classifies a file and moves on increases it by exactly one, the
\* return of "cancelled" leaves it unchanged, and nothing else changes it.
C28_IndexMonotone ==
    [][\A w \in Workers :
          (WorkerRunning(w) /\ pc[w] # "start") =>
              /\ current_file_index' >= current_file_index
              /\ current_file_index' <= Total
              /\ AdvanceStep(w) => current_file_index' = current_file_index + 1
              /\ (StepFrom(w, "result") /\ res[w] = "cancelled")
                    => current_file_index' = current_file_index
              /\ current_file_index' # current_file_index
                    => \E v \in Workers : AdvanceStep(v)
      ]_vars

\* the files job w has classified (the outcome "cancelled" classifies none)
ClassifiedBy(w) == {f \in Files : outcome[w][f] \notin {"pending", "cancelled"}}

\* C29: whenever the worker is at the head of its per-file loop,
\* remuxed_count + skipped_count equals the current index; and the FINISHED
\* of a job that observed a cancellation carries counts that add up to the
\* number of files the job had classified, at most the total.
C29_LoopInvariant ==
    \A w \in Workers :
        /\ pc[w] = "loop" => remuxed_count[w] + skipped_count[w] = current_file_index
        /\ (pc[w] = "done" /\ observed[w]) =>
              \A i \in FinishedEvents(w) :
                  /\ events[w][i].n + events[w][i].m = Cardinality(ClassifiedBy(w))
                  /\ events[w][i].n + events[w][i].m <= Total

\* C30: where the worker, past the end of the monitor loop with no skip or
\* cancel pending, classifies the exit of the process, the result is
\* "completed" iff the exit code is 0 and "error" otherwise, no output file is
\* deleted, and the process handle has been released.
C30_ExitCode ==
    [][\A w \in Workers :
          (StepFrom(w, "post_cancel") /\ ~cancel_event /\ ~skip_event) =>
              /\ res'[w] = IF proc[w] = "exit0" THEN "completed" ELSE "error"
              /\ outcome'[w][ctx[w]] = res'[w]
              /\ out' = out
              /\ current_process # w /\ current_process' # w
              /\ pc'[w] = "result"
      ]_vars

\* the process of file 1 exited with a non-zero code after writing part of
\* its output: the result is "error" and the partial output is still there
C30_Witness ==
    /\ pc[1] = "result" /\ ctx[1] = 1 /\ clicks = 0
    /\ res[1] = "error" /\ proc[1] = "exitN"
    /\ out[1] = "partial"
    /\ current_process = 0

\* the command list holds the arguments `args' next to each other
HasArgs(cmd, args) ==
    \E k \in 1..(Len(cmd) - Len(args) + 1) : SubSeq(cmd, k, k + Len(args) - 1) = args
HasArg(cmd, a) == \E k \in DOMAIN cmd : cmd[k] = a

\* the events worker w puts in the step
NewEvents(w) == SubSeq(events'[w], Len(events[w]) + 1, Len(events'[w]))

\* C27: the command built for a file copies the video stream; it maps and
\* copies all audio streams iff include_audio and has -an otherwise; it has
\* the timescale flag, followed by the frame rate, iff use_timescale is set
\* and the descriptor has a frame rate (a text float() accepts); and the
\* step that builds it logs one warning naming the file when use_timescale
\* is set and the frame rate is absent, and nothing otherwise.
C27_CommandConstruction ==
    [][\A w \in Workers :
          (StepFrom(w, "ps_valid") /\ settings.valid[ctx[w]]) =>
              LET f == ctx[w]
                  cmd == command'[w]
                  t == settings.fps[f]
                  absent == t = "None"
              IN  /\ HasArgs(cmd, <<"-i", InputPath(f), "-c:v", "copy">>)
                  /\ cmd[Len(cmd)] = OutputPath(f)
                  /\ IF settings.include_audio
                     THEN /\ HasArgs(cmd, <<"-map", "0:v", "-map", "0:a", "-c:a", "copy">>)
                          /\ ~HasArg(cmd, "-an")
                     ELSE /\ HasArg(cmd, "-an")
                          /\ ~HasArg(cmd, "-map") /\ ~HasArg(cmd, "-c:a")
                  /\ HasArg(cmd, "-video_track_timescale")
                        <=> (settings.use_timescale /\ ~absent)
                  /\ HasArg(cmd, "-video_track_timescale")
                        => HasArgs(cmd, <<"-video_track_timescale", t>>)
                  /\ NewEvents(w) = IF settings.use_timescale /\ absent
                                    THEN <<LogEv(w, f, "warn_no_fps")>>
                                    ELSE <<>>
      ]_vars

\* use_timescale is set, audio is stripped, file 1 has no frame rate and
\* file 2 has one: the command of file 1 was built without the flag and with
\* one warning, the command of file 2 with the flag
C27_Witness ==
    /\ settings.use_timescale /\ ~settings.include_audio
    /\ settings.fps[1] = "None" /\ settings.fps[2] = "30.0"
    /\ pc[1] = "exec" /\ ctx[1] = 2
    /\ command[1] = <<"ffmpeg", "-y", "-i", "input2", "-c:v", "copy", "-an",
                      "-video_track_timescale", "30.0", "dir2/name2.mp4">>
    /\ Cardinality(Logged(1, 1, "warn_no_fps")) = 1
    /\ Logged(1, 2, "warn_no_fps") = {}
    /\ outcome[1][1] = "completed"

\* C31: while the only requests issued are pauses and resumes, a running
\* ffmpeg process ends only by exiting on its own (no step of the worker or of
\* the GUI thread ends it), its output file is not removed, the handle
\* current_process keeps referring to it, and the result of the file is
\* "completed" for exit code 0 and "error" for any other.
C31_PauseKeepsProcess ==
    [][\A w \in Workers :
          /\ (req' = -2 /\ proc[w] = "running") =>
                /\ (proc'[w] # "running" => (pc' = pc /\ gui' = gui))
                /\ (out[ctx[w]] # "none" => out'[ctx[w]] # "none")
                /\ (current_process = w => current_process' = w)
          /\ (req' = -2 /\ StepFrom(w, "post_cancel")) =>
                res'[w] = IF proc[w] = "exit0" THEN "completed" ELSE "error"
      ]_vars

\* the job was paused while the process of its first file ran and has been
\* resumed: the worker has left the spin-wait, the process is alive and has
\* written part of its output
C31_Witness ==
    /\ req = -2 /\ pause_event
    /\ pc[1] = "mp_cancel"
    /\ proc[1] = "running" /\ current_process = 1
    /\ out[ctx[1]] = "partial"

\* worker w runs handle_original_file in the step: the original is moved or
\* deleted, or the failure of the move is logged
DispositionRan(w) ==
    /\ pc'[w] # pc[w]
    /\ \/ orig' # orig
       \/ \E k \in DOMAIN NewEvents(w) : NewEvents(w)[k].what = "warn_disposition"

\* the steps that end the handling of a file as completed, as skipped by the
\* user before its start or while paused, or with a result classified as one
\* of `kinds'
DispositionDue(w, kinds) ==
    \/ StepFrom(w, "post_cancel") /\ outcome'[w][ctx[w]] = "completed"
    \/ StepFrom(w, "ps_doskip") \/ StepFrom(w, "pl_doskip")
    \/ StepFrom(w, "result") /\ outcome[w][ctx[w]] \in kinds

\* C32 as stated: under the move policy handle_original_file runs exactly in
\* the steps that complete a file or serve a skip of the user (before the
\* start, while paused, mid-run), and in no step for an invalid descriptor, an
\* existing output or a mux error.
C32_DispositionOnSkipOrSuccess ==
    [][\A w \in Workers : settings.file_action = FILE_ACTION_MOVE =>
          (DispositionRan(w) <=> DispositionDue(w, {"skipped_midrun"}))]_vars

\* C32: under the move policy handle_original_file runs exactly in the steps
\* that complete a file, serve a skip of the user (before the start, while
\* paused, mid-run) or handle a file skipped because its output exists, and
\* in no step for an invalid descriptor, a mux error or a cancellation.
C32_DispositionOnSkippedResult ==
    [][\A w \in Workers : settings.file_action = FILE_ACTION_MOVE =>
          (DispositionRan(w) <=> DispositionDue(w, {"skipped_midrun", "exists"}))]_vars

\* a finished job under the move policy: the first file was skipped because
\* its output existed and its original was moved, the second failed and its
\* original is in place
C32_Witness ==
    /\ settings.file_action = FILE_ACTION_MOVE
    /\ pc[1] = "done"
    /\ outcome[1][1] = "exists" /\ orig[1] = "moved"
    /\ outcome[1][2] = "error" /\ orig[2] = "present"

\* C33: under the delete policy an original that is gone was deleted by the
\* job that completed this very file (its ffmpeg process exited with code 0),
\* and no original is moved; a file classified otherwise has its original in
\* place.  Under the keep policy every original stays in place.
C33_DeleteOnlyCompleted ==
    /\ settings.file_action = FILE_ACTION_DELETE =>
          \A f \in JobFiles :
              /\ orig[f] # "moved"
              /\ orig[f] = "deleted" => \E w \in Workers : outcome[w][f] = "completed"
    /\ settings.file_action = FILE_ACTION_KEEP =>
          \A f \in JobFiles : orig[f] = "present"

\* C34: a step of a worker that moves or deletes an original acts on the
\* file the worker is handling (the path in video_file_path) and on no other
\* file of the list.
C34_DispositionActsOnOwnFile ==
    [][\A w \in Workers : pc'[w] # pc[w] =>
          \A g \in JobFiles : orig'[g] # orig[g] => g = ctx[w]]_vars

\* C35: the descriptor stored for a path whose frame-rate query failed (a
\* timeout or a non-zero exit) still has the duration the duration query
\* answers and, when audio is included, the number of audio tracks the audio
\* query answers.
C35_ProbesIndependent ==
    \A p \in DOMAIN results :
        FpsProbeRaises(probe[p].fps) =>
            /\ results[p].duration = ParsedDuration(probe[p].dur)
            /\ settings.include_audio => results[p].audio_tracks = probe[p].audio

\* C36: the descriptor stored for a path has the frame rate num/den when the
\* frame-rate query answers a fraction `num/den' with den # 0; it has no
\* frame rate when the answer is `0/0', empty, or a text that is no number
\* (with or without a slash), and it is valid in each of these cases unless
\* the duration query timed out.
C36_FrameRateParsing ==
    \A p \in DOMAIN results :
        LET a == probe[p].fps
            d == results[p]
        IN  /\ (a.k = "frac" /\ a.den # 0) => d.fps * a.den = a.num
            /\ (\/ a.k \in {"empty", "text", "slash_text"}
                \/ a.k = "frac" /\ a.num = 0 /\ a.den = 0) =>
                   /\ d.fps = 0
                   /\ ~DurationProbeRaises(probe[p].dur) => d.valid

IsScanProgress(e) == e.type = "SCAN_PROGRESS"

\* C37: the SCAN_PROGRESS events a scan of N files has put are those of the
\* counts of finished files, up to the present one, that are a multiple of 5
\* or equal to N; their `current' values strictly increase; and once a scan
\* that saw no cancellation has put SCAN_COMPLETE, the last of them has
\* current = N and percent = 100.
C37_ScanProgressBatching ==
    LET N == Len(scan_files)
        prog == SelectSeq(scan_events, IsScanProgress)
    IN  /\ {prog[k].current : k \in DOMAIN prog} =
              {c \in 1..Len(collected) : c % ScanBatch = 0 \/ c = N}
        /\ \A k \in DOMAIN prog : k > 1 => prog[k - 1].current < prog[k].current
        /\ (scan_msg.sent /\ ~scan_cancelled) =>
              /\ prog # <<>>
              /\ prog[Len(prog)].current = N
              /\ prog[Len(prog)].percent = 100

\* C38: every PROGRESS event a worker puts has in `current' (field n) the
\* number of files the job has classified when it is put (remuxed_count +
\* skipped_count), a value no greater than the total and no smaller than
\* that of any PROGRESS the worker put before; this includes the PROGRESS put
\* right before FINISHED.
C38_ProgressCountsClassified ==
    [][\A w \in Workers :
          \A k \in (Len(events[w]) + 1)..Len(events'[w]) :
              events'[w][k].type = "PROGRESS" =>
                  /\ events'[w][k].n = remuxed_count'[w] + skipped_count'[w]
                  /\ events'[w][k].n <= Total
                  /\ \A j \in 1..(k - 1) :
                        events'[w][j].type = "PROGRESS" =>
                            events'[w][j].n <= events'[w][k].n]_vars

\* C39: the command the preview shows for a file is the command
\* build_ffmpeg_command makes for that file under the same settings and scan
\* results, argument for argument.
C39_PreviewMatchesBuild ==
    \A w \in Workers :
        (preview # <<>> /\ command[w] # <<>>) => preview[ctx[w]] = command[w]

\* the timescale option is set, audio stripped, an output directory and the
\* format .mkv chosen; the preview is made and job 1 has built the command of
\* file 2, which has a frame rate, and job 2 that of file 1, which has none
C39_Witness ==
    /\ settings.use_timescale /\ ~settings.include_audio
    /\ settings.output_dir = "outdir" /\ settings.output_format = ".mkv"
    /\ settings.fps[1] = "None" /\ settings.fps[2] = "30.0"
    /\ preview # <<>>
    /\ ctx[1] = 2 /\ ctx[2] = 1
    /\ command[1] = <<"ffmpeg", "-y", "-i", "input2", "-c:v", "copy", "-an",
                      "-video_track_timescale", "30.0", "outdir/name2.mkv">>
    /\ command[2] = <<"ffmpeg", "-y", "-i", "input1", "-c:v", "copy", "-an",
                      "outdir/name1.mkv">>

\* the steps of a cancel request: the click that opens the dialog, the
\* answer No that closes it, and any step taken while it is open
CancelRequested == gui = "idle" /\ gui' = "cancel_dialog"
CancelDeclined == gui = "cancel_dialog" /\ gui' = "idle"
DialogOpen == gui = "cancel_dialog"

\* the request and the declining leave every ffmpeg process as it is
ProcessUntouched == proc' = proc /\ current_process' = current_process

\* the signals and the live process: the request and the answer No leave
\* cancel_event unset and the processes untouched, and after the answer
\* pause_event has the value it had when the request was made
DeclinedCancelRestores ==
    /\ CancelRequested =>
           /\ ~cancel_event /\ ~cancel_event'
           /\ was_paused' = ~pause_event
           /\ ProcessUntouched
    /\ DialogOpen => ~cancel_event /\ ~pause_event
    /\ CancelDeclined =>
           /\ ~cancel_event'
           /\ pause_event' = ~was_paused
           /\ ProcessUntouched

\* no step taken while the dialog is open starts an ffmpeg process
NoSpawnWhileDialogOpen ==
    DialogOpen => \A w \in Workers : proc'[w] = "running" => proc[w] = "running"

\* C40: a cancel request answered No changes nothing durable: cancel_event
\* stays unset, pause_event ends with the value it had before the request,
\* no ffmpeg process is terminated, and while the dialog is open no worker
\* starts an ffmpeg process.
C40_DeclinedCancelChangesNothing ==
    [][DeclinedCancelRestores /\ NoSpawnWhileDialogOpen]_vars

====
